---- MODULE Spec2Model ----
(***************************************************************************)
(* Verification model of the decklink2 playout pacer                       *)
(* (sys/decklink2/gstdecklink2output.cpp) and of the capture               *)
(* re-synchronisation engine (sys/decklink2/gstdecklink2input.cpp).        *)
(*                                                                         *)
(* The vendor device (IDeckLinkOutput / IDeckLinkInput) is the             *)
(* environment: every call the code makes into it may fail, and its        *)
(* completion callbacks are delivered on a driver thread.                  *)
(***************************************************************************)
EXTENDS Integers, Sequences, FiniteSets, TLC

(***************************************************************************)
(* Bounds of the exploration.                                              *)
(***************************************************************************)
MaxSubmits == 2         \* units the pipeline renders per configuration
MaxFrames == 3          \* n_frames at which the device stops completing frames
MaxPending == 2         \* completion callbacks waiting for the driver thread
MaxAudioSamples == 1    \* samples carried by one rendered unit
MaxPreroll == 2         \* largest n_preroll_frames configured
MaxMinBuffered == 0     \* largest min_buffered configured
MaxMaxBuffered == 4     \* largest max_buffered configured

(***************************************************************************)
(* Program constants.                                                      *)
(***************************************************************************)
GST_SECOND == 1000000000
AudioRate == 48000
BytesPerFrame == 4

NULL == "NULL"
S_OK == "S_OK"
E_FAIL == "E_FAIL"

Min(a, b) == IF a < b THEN a ELSE b
Max(a, b) == IF a < b THEN b ELSE a

\* gst_util_uint64_scale (val, num, denom) = floor (val * num / denom); the
\* product is split so that no intermediate value leaves the machine range,
\* and no result of the model reaches the 64-bit saturation of the original.
RECURSIVE GCD(_, _)
GCD(a, b) == IF b = 0 THEN a ELSE GCD(b, a % b)

gst_util_uint64_scale(val, num, denom) ==
  LET g == GCD(num, denom)
      n == num \div g
      d == denom \div g
      big == Max(val, n)
      small == Min(val, n)
  IN (big \div d) * small + ((big % d) * small) \div d

\* Display modes (GstDeckLink2DisplayMode.fps_n / fps_d) and audio channel
\* counts (0 disables the audio output) passed to configure.
Modes == { [fps_n |-> 30000, fps_d |-> 1001] }
Channels == {0, 2}

\* GstAudioInfo after gst_audio_info_init / gst_audio_info_set_format.
AudioInfoInvalid == [valid |-> FALSE, rate |-> 0, bpf |-> 0]
AudioInfoS16 == [valid |-> TRUE, rate |-> AudioRate, bpf |-> BytesPerFrame]

VARIABLES
  output,      \* struct _GstDeckLink2Output
  audio_buf,   \* GstDeckLink2OutputPrivate::audio_buf
  device,      \* the IDeckLinkOutput behind the dispatch shims
  dev_log,     \* calls the latest handler made into the device scheduler
  dev_calls,   \* number of calls per device method since EnableVideoOutput
  pending,     \* completion results the driver has not yet delivered
  pc,          \* position of the pipeline thread
  arg,         \* arguments of the call the pipeline thread is inside
  ret,         \* HRESULT of the last call the pipeline thread returned from
  input,       \* struct _GstDeckLink2Input and GstDeckLink2InputPrivate
  adapter,     \* GstDeckLink2Input::audio_buf, the samples not yet attached
  queue,       \* GstDeckLink2Input::queue, the captured buffers not yet taken
  hw,          \* the IDeckLinkInput: its stream clock and the frames delivered
  arrival,     \* what the latest frame-arrived callback was given and produced
  consumer,    \* the streaming thread: its position in get_data, its result
  twin,        \* a second capture session, given the same audio packets
  threads,     \* the control thread's position and the locks of the latest step
  device_list, \* the GstDeckLink2Object of every device, sorted by persistent id
  elements,    \* the input or output each element holds, or NULL
  capture,     \* where the capture callback and the starting thread are, priv->lock
  sink         \* struct _GstDeckLink2Sink: thresholds, configured, schedule_restart

outvars == <<output, audio_buf, device, dev_log, dev_calls, pending, pc, arg, ret>>
invars == <<input, adapter, queue, hw, arrival, consumer>>
ownvars == <<device_list, elements>>
elemvars == <<device_list, elements, capture, sink>>
vars == <<output, audio_buf, device, dev_log, dev_calls, pending, pc, arg, ret,
          input, adapter, queue, hw, arrival, consumer, twin,
          threads, device_list, elements, capture, sink>>

(***************************************************************************)
(* GstDecklink2OutputAudioBuffer                                           *)
(***************************************************************************)
AudioBufNew ==
  [buffer |-> 0, video_frame_dup_drop_count |-> 0,
   dup_drop_sample_offset_end |-> 0, samples_to_drop |-> 0, pos |-> 0,
   info |-> AudioInfoInvalid, fps_n |-> 0, fps_d |-> 0, init_done |-> FALSE]

AudioBufInit(ab, info, fps_n, fps_d) ==
  [buffer |-> 0, video_frame_dup_drop_count |-> 0,
   dup_drop_sample_offset_end |-> 0, samples_to_drop |-> 0, pos |-> 0,
   info |-> info, fps_n |-> fps_n, fps_d |-> fps_d, init_done |-> TRUE]

\* Deinit () clears the buffer and init_done.  No method reads the other
\* fields before the next Init () overwrites them, so they are cleared too.
AudioBufDeinit(ab) == AudioBufNew

\* Append (data, size): size is in bytes; data is NULL exactly when size is 0.
AudioBufAppend(ab, size) ==
  IF size = 0 \/ ~ab.init_done THEN ab
  ELSE LET num_samples == size \div ab.info.bpf
       IN IF ab.samples_to_drop > 0
          THEN IF num_samples >= ab.samples_to_drop
               THEN IF num_samples - ab.samples_to_drop = 0
                    THEN [ab EXCEPT !.samples_to_drop = 0]
                    ELSE [ab EXCEPT !.samples_to_drop = 0,
                            !.buffer = @ + size - ab.samples_to_drop * ab.info.bpf]
               ELSE [ab EXCEPT !.samples_to_drop = @ - num_samples]
          ELSE [ab EXCEPT !.buffer = @ + size]

\* PrependSilence () as it would be with every insertion sized from one
\* frame duration alone, without the running sample offset.
AudioBufPrependSilence_PerFrame(ab) ==
  IF ~ab.init_done THEN [ab |-> ab, num_samples |-> 0]
  ELSE LET cnt == ab.video_frame_dup_drop_count + 1
           num_samples == gst_util_uint64_scale(1, ab.fps_d * ab.info.rate, ab.fps_n)
       IN [ab |-> [ab EXCEPT !.video_frame_dup_drop_count = cnt,
                             !.dup_drop_sample_offset_end = @ + num_samples,
                             !.buffer = @ + num_samples * ab.info.bpf],
           num_samples |-> num_samples]

\* PrependSilence (): the new buffer and the number of samples it returns.
AudioBufPrependSilence(ab) ==
  IF ~ab.init_done THEN [ab |-> ab, num_samples |-> 0]
  ELSE LET cnt == ab.video_frame_dup_drop_count + 1
           next_sample_offset ==
             gst_util_uint64_scale(cnt, ab.fps_d * ab.info.rate, ab.fps_n)
           num_samples == next_sample_offset - ab.dup_drop_sample_offset_end
       IN [ab |-> [ab EXCEPT !.video_frame_dup_drop_count = cnt,
                             !.dup_drop_sample_offset_end = next_sample_offset,
                             !.buffer = @ + num_samples * ab.info.bpf],
           num_samples |-> num_samples]

\* GetSamples (num_samples, sample_pos); data is NULL when not initialised.
AudioBufGetSamples(ab) ==
  IF ~ab.init_done THEN [data |-> FALSE, num_samples |-> 0, sample_pos |-> 0]
  ELSE [data |-> TRUE, num_samples |-> ab.buffer \div ab.info.bpf,
        sample_pos |-> ab.pos]

\* Flush () as it would be if it removed the samples without advancing pos_.
AudioBufFlush_KeepPos(ab, samples) ==
  IF samples = 0 \/ ab.buffer = 0 THEN ab
  ELSE LET cur_samples == ab.buffer \div ab.info.bpf
       IN IF cur_samples <= samples
          THEN [ab EXCEPT !.buffer = 0]
          ELSE [ab EXCEPT !.buffer = @ - samples * ab.info.bpf]

\* Flush (samples)
AudioBufFlush(ab, samples) ==
  IF samples = 0 \/ ab.buffer = 0 THEN ab
  ELSE LET cur_samples == ab.buffer \div ab.info.bpf
       IN IF cur_samples <= samples
          THEN [ab EXCEPT !.pos = @ + cur_samples, !.buffer = 0]
          ELSE [ab EXCEPT !.pos = @ + samples,
                          !.buffer = @ - samples * ab.info.bpf]

(***************************************************************************)
(* The device behind the dispatch shims.                                   *)
(***************************************************************************)
DeviceNew ==
  [video |-> FALSE, audio |-> FALSE, callback |-> FALSE, running |-> FALSE,
   frames |-> 0, audio_samples |-> 0, preroll |-> "none"]

\* One entry of dev_log.  call is the device method; for ScheduleVideoFrame
\* a is the display time and b the duration, for ScheduleAudioSamples a is
\* the stream position, b the samples offered and c the samples written.
LogEntry(call, ok, a, b, c, frame) ==
  [call |-> call, ok |-> ok, a |-> a, b |-> b, c |-> c, frame |-> frame]

\* gst_decklink2_output_is_running / get_num_buffered as read by the pacer.
IsRunning(d) == d.running
NumBuffered(d) == d.frames

(***************************************************************************)
(* A world is the part of the state one handler works on under the         *)
(* scheduling lock.                                                        *)
(***************************************************************************)
World(o, ab, d, log) == [output |-> o, audio_buf |-> ab, device |-> d, log |-> log]

\* The drain loop as it would be if a refused ScheduleAudioSamples call were
\* repeated once instead of being returned.
DrainAudio_Retry(w, fault, split) ==
  LET gs == AudioBufGetSamples(w.audio_buf)
      n == gs.num_samples
      pos == gs.sample_pos
  IN IF ~gs.data \/ n = 0 THEN [w |-> w, hr |-> S_OK]
     ELSE IF fault \in {"audio", "audio_part"}
     THEN [w |-> [w EXCEPT !.audio_buf = AudioBufFlush(@, n),
                           !.device.audio_samples = @ + n,
                           !.log = w.log \o
                    << LogEntry("ScheduleAudioSamples", FALSE, pos, n, 0, NULL),
                       LogEntry("ScheduleAudioSamples", TRUE, pos, n, n, NULL) >>],
           hr |-> S_OK]
     ELSE [w |-> [w EXCEPT !.audio_buf = AudioBufFlush(@, n),
                           !.device.audio_samples = @ + n,
                           !.log = Append(w.log,
                    LogEntry("ScheduleAudioSamples", TRUE, pos, n, n, NULL))],
           hr |-> S_OK]

\* The drain loop of gst_decklink2_output_schedule_video_internal:
\* ScheduleAudioSamples / Flush until the buffer is empty or a call fails.
\* fault "audio" fails the first call, "audio_part" the second one after the
\* device took one sample; split makes the device take the samples in two
\* calls.
DrainAudio(w, fault, split) ==
  LET gs == AudioBufGetSamples(w.audio_buf)
      n == gs.num_samples
      pos == gs.sample_pos
      Take(k) == [w EXCEPT !.audio_buf = AudioBufFlush(@, k),
                           !.device.audio_samples = @ + k]
  IN IF ~gs.data \/ n = 0 THEN [w |-> w, hr |-> S_OK]
     ELSE IF fault = "audio" \/ (fault = "audio_part" /\ n < 2)
     THEN [w |-> [w EXCEPT !.log = Append(@,
                    LogEntry("ScheduleAudioSamples", FALSE, pos, n, 0, NULL))],
           hr |-> E_FAIL]
     ELSE IF fault = "audio_part"
     THEN [w |-> [Take(1) EXCEPT !.log = w.log \o
                    << LogEntry("ScheduleAudioSamples", TRUE, pos, n, 1, NULL),
                       LogEntry("ScheduleAudioSamples", FALSE, pos + 1, n - 1, 0, NULL) >>],
           hr |-> E_FAIL]
     ELSE IF split /\ n >= 2
     THEN [w |-> [Take(n) EXCEPT !.log = w.log \o
                    << LogEntry("ScheduleAudioSamples", TRUE, pos, n, 1, NULL),
                       LogEntry("ScheduleAudioSamples", TRUE, pos + 1, n - 1, n - 1, NULL) >>],
           hr |-> S_OK]
     ELSE [w |-> [Take(n) EXCEPT !.log = Append(w.log,
                    LogEntry("ScheduleAudioSamples", TRUE, pos, n, n, NULL))],
           hr |-> S_OK]

Faults == {"none", "video", "begin", "audio", "audio_part", "end", "start"}

\* The faults that can show with the audio output disabled: the audio calls
\* are not made.
VideoFaults == {"none", "video", "start"}

\* next_pts as it would be when accumulated from a per-frame duration.
NextPts_Accumulated(o, n_frames) ==
  o.pts + gst_util_uint64_scale(o.selected_mode.fps_d, GST_SECOND,
                                o.selected_mode.fps_n)

\* next_pts of schedule_video_internal: the end of frame n_frames, scaled
\* from the frame counter.
NextPts(o, n_frames) ==
  gst_util_uint64_scale(n_frames * o.selected_mode.fps_d, GST_SECOND,
                        o.selected_mode.fps_n)

\* The begin-of-preroll test as it would be without the n_prerolled test.
NeedsBeginPreroll_EveryFrame(o) == o.audio_info.valid

\* if (self->n_prerolled == 0 && GST_AUDIO_INFO_IS_VALID (&self->audio_info))
NeedsBeginPreroll(o) == o.n_prerolled = 0 /\ o.audio_info.valid

\* The end-of-preroll test as it would be with > for >=.
PrerollDone_Late(n_prerolled, n_preroll_frames) == n_prerolled > n_preroll_frames

\* if (self->n_prerolled >= self->n_preroll_frames)
PrerollDone(n_prerolled, n_preroll_frames) == n_prerolled >= n_preroll_frames

\* Frames are named, and two names denote the same object when they are
\* equal.  The sink hands over a frame it has just uploaded, which is never
\* the object the output already holds.
UploadedFrame(last) == IF last = "frame" THEN "frame2" ELSE "frame"

\* IDeckLinkVideoFrame::Clone gives a new object, distinct from the cloned.
CloneOf(frame) == IF frame = "copy" THEN "copy2" ELSE "copy"

\* schedule_video_head as it would be if a refused frame kept its slot.
schedule_video_head_PtsOnSuccess(w, frame, fault) ==
  LET o == w.output
      n_frames == o.n_frames + 1
      next_pts == NextPts(o, n_frames)
      dur == next_pts - o.pts
      vok == fault # "video"
      w1 == [w EXCEPT !.output.last_frame = frame,
                      !.output.last_frame_refs =
                        IF frame = o.last_frame
                        THEN (@ + 1) - 1 ELSE 1,
                      !.output.n_frames = n_frames,
                      !.output.pts = IF vok THEN next_pts ELSE @,
                      !.device.frames = IF vok THEN @ + 1 ELSE @,
                      !.log = Append(@, LogEntry("ScheduleVideoFrame", vok,
                                                 o.pts, dur, 0, frame))]
      gs == AudioBufGetSamples(w.audio_buf)
      w2 == [w1 EXCEPT !.output.n_samples = @ + gs.num_samples]
      w3 == [w2 EXCEPT !.log = Append(@, LogEntry("BeginAudioPreroll",
                                     fault # "begin", 0, 0, 0, NULL)),
                       !.device.preroll =
                                     IF fault # "begin" THEN "begun" ELSE @]
  IN IF ~vok THEN [w |-> w1, hr |-> E_FAIL]
     ELSE IF ~o.prerolled /\ NeedsBeginPreroll(o)
     THEN [w |-> w3, hr |-> IF fault = "begin" THEN E_FAIL ELSE S_OK]
     ELSE [w |-> w2, hr |-> S_OK]

\* gst_decklink2_output_schedule_video_internal up to its drain loop: the
\* frame is kept as last_frame and scheduled, the pending samples are
\* counted, the audio preroll is begun with the first frame.
schedule_video_head(w, frame, fault) ==
  LET o == w.output
      n_frames == o.n_frames + 1
      next_pts == NextPts(o, n_frames)
      dur == next_pts - o.pts
      vok == fault # "video"
      w1 == [w EXCEPT !.output.last_frame = frame,
                      !.output.last_frame_refs =
                        IF frame = o.last_frame
                        THEN (@ + 1) - 1 ELSE 1,
                      !.output.n_frames = n_frames,
                      !.output.pts = next_pts,
                      !.device.frames = IF vok THEN @ + 1 ELSE @,
                      !.log = Append(@, LogEntry("ScheduleVideoFrame", vok,
                                                 o.pts, dur, 0, frame))]
      gs == AudioBufGetSamples(w.audio_buf)
      w2 == [w1 EXCEPT !.output.n_samples = @ + gs.num_samples]
      w3 == [w2 EXCEPT !.log = Append(@, LogEntry("BeginAudioPreroll",
                                     fault # "begin", 0, 0, 0, NULL)),
                       !.device.preroll =
                                     IF fault # "begin" THEN "begun" ELSE @]
  IN IF ~vok THEN [w |-> w1, hr |-> E_FAIL]
     ELSE IF ~o.prerolled /\ NeedsBeginPreroll(o)
     THEN [w |-> w3, hr |-> IF fault = "begin" THEN E_FAIL ELSE S_OK]
     ELSE [w |-> w2, hr |-> S_OK]

\* gst_decklink2_output_schedule_video_internal after the drain loop of its
\* preroll branch: the frame is counted and, with the last frame of the
\* preroll, the audio preroll is ended and playback started.
schedule_video_tail(w, fault) ==
  LET o == w.output
      w4 == [w EXCEPT !.output.n_prerolled = @ + 1]
      w5 == IF o.audio_info.valid
            THEN [w4 EXCEPT !.log = Append(@, LogEntry("EndAudioPreroll",
                                     fault # "end", 0, 0, 0, NULL)),
                            !.device.preroll =
                                     IF fault # "end" THEN "ended" ELSE @]
            ELSE w4
      w6 == [w5 EXCEPT !.log = Append(@, LogEntry("StartScheduledPlayback",
                                     fault # "start", 0, 0, 0, NULL)),
                       !.device.running = (fault # "start")]
  IN IF ~PrerollDone(o.n_prerolled + 1, o.n_preroll_frames)
     THEN [w |-> w4, hr |-> S_OK]
     ELSE IF o.audio_info.valid /\ fault = "end" THEN [w |-> w5, hr |-> E_FAIL]
     ELSE IF fault = "start" THEN [w |-> w6, hr |-> E_FAIL]
     ELSE [w |-> [w6 EXCEPT !.output.prerolled = TRUE], hr |-> S_OK]

\* What follows a drain loop that ended with dr: nothing when a call failed
\* or playback is running, the rest of the preroll branch otherwise.
schedule_video_drained(dr, fault) ==
  IF dr.hr # S_OK \/ dr.w.output.prerolled THEN dr
  ELSE schedule_video_tail(dr.w, fault)

\* The drain loop and what follows it, entered with the outcome h of the
\* part before it.
schedule_video_drain(h, fault, split) ==
  IF h.hr # S_OK THEN h
  ELSE schedule_video_drained(DrainAudio(h.w, fault, split), fault)

\* gst_decklink2_output_schedule_video_internal (self, frame)
schedule_video_internal(w, frame, fault, split) ==
  schedule_video_drain(schedule_video_head(w, frame, fault), fault, split)

(***************************************************************************)
(* gst_decklink2_output_on_completed                                       *)
(***************************************************************************)
\* The callback up to its recursion guard: the counters by result kind, the
\* early returns, the underrun test.  burst tells whether the caller goes on
\* into the duplication loop.  qok is the outcome of the device queries.
on_completed_head_LateOnDrop(w, result, qok) ==
  LET o == w.output
      w1 == [w EXCEPT !.output.late_count =
                         IF result \in {"DisplayedLate", "Dropped"}
                         THEN @ + 1 ELSE @,
                      !.output.drop_count =
                         IF result = "Dropped" THEN @ + 1 ELSE @]
      active == qok /\ IsRunning(w.device)
      underrun == active /\ NumBuffered(w.device) <= o.min_buffered
      w2 == [w1 EXCEPT !.output.underrun_count = @ + 1]
  IN IF o.last_frame = NULL THEN [w |-> w1, burst |-> FALSE]
     ELSE IF ~underrun THEN [w |-> w1, burst |-> FALSE]
     ELSE [w |-> w2, burst |-> ~o.duplicating]

on_completed_head(w, result, qok) ==
  LET o == w.output
      w1 == [w EXCEPT !.output.late_count =
                         IF result = "DisplayedLate" THEN @ + 1 ELSE @,
                      !.output.drop_count =
                         IF result = "Dropped" THEN @ + 1 ELSE @]
      active == qok /\ IsRunning(w.device)
      underrun == active /\ NumBuffered(w.device) <= o.min_buffered
      w2 == [w1 EXCEPT !.output.underrun_count = @ + 1]
  IN IF o.last_frame = NULL THEN [w |-> w1, burst |-> FALSE]
     ELSE IF ~underrun THEN [w |-> w1, burst |-> FALSE]
     ELSE [w |-> w2, burst |-> ~o.duplicating]

\* Parameters of one iteration of the duplication loop: whether Clone ()
\* succeeds, which device call fails, and whether the driver delivers a
\* waiting completion from inside the iteration's scheduling call.
ItParams(audio, waiting) ==
  [clone : BOOLEAN,
   fault : IF audio THEN {"none", "video", "audio"} ELSE {"none", "video"},
   nested : IF waiting THEN BOOLEAN ELSE {FALSE}]

\* One iteration of the duplication loop run by a callback that the driver
\* delivers from inside a scheduling call of another callback's loop.
NestedIteration(w) ==
  LET ps == AudioBufPrependSilence(w.audio_buf)
      w1 == [w EXCEPT !.audio_buf = ps.ab,
                      !.output.silent_sample_count = @ + ps.num_samples]
      sv == schedule_video_internal(w1, CloneOf(w.output.last_frame), "none", FALSE)
  IN [sv.w EXCEPT !.output.duplicate_count = @ + 1]

\* The duplication loop of such a callback.
NestedBurst(w) ==
  LET w0 == [w EXCEPT !.output.duplicating = TRUE]
      w1 == IF w.output.gap_frames >= 1 THEN NestedIteration(w0) ELSE w0
      w2 == IF w.output.gap_frames >= 2 THEN NestedIteration(w1) ELSE w1
  IN [w2 EXCEPT !.output.duplicating = FALSE]

\* The nested callback as it would be without `if (self->duplicating)
\* return;`.
on_completed_nested_Unguarded(w, result) ==
  LET h == on_completed_head([w EXCEPT !.output.duplicating = FALSE], result, TRUE)
  IN IF h.burst THEN NestedBurst(h.w) ELSE [h.w EXCEPT !.output.duplicating = TRUE]

\* gst_decklink2_output_on_completed entered again, through the recursive
\* lock, on the thread that is inside a scheduling call of the loop.
on_completed_nested(w, result) ==
  LET h == on_completed_head(w, result, TRUE)
  IN IF h.burst THEN NestedBurst(h.w) ELSE h.w

\* The loop's iteration as it would be if the fallback took no reference on
\* last_frame.
BurstIteration_NoAddRef(x, it) ==
  LET w == x.w
      copy == IF it.clone THEN CloneOf(w.output.last_frame)
              ELSE w.output.last_frame
      ps == AudioBufPrependSilence(w.audio_buf)
      w1 == [w EXCEPT !.audio_buf = ps.ab,
                      !.output.silent_sample_count = @ + ps.num_samples]
      deliver == it.nested /\ x.pend # << >>
      calls == deliver /\ Head(x.pend) \in {"Completed", "DisplayedLate", "Dropped"}
      w2 == IF calls THEN on_completed_nested(w1, Head(x.pend)) ELSE w1
      sv == schedule_video_internal(w2, copy, it.fault, FALSE)
      w3 == [sv.w EXCEPT !.output.last_frame_refs =
                           IF it.clone THEN @ ELSE @ - 1,
                         !.output.duplicate_count = @ + 1]
  IN [w |-> w3, pend |-> IF deliver THEN Tail(x.pend) ELSE x.pend]

\* One iteration of the loop at the end of on_completed.  x carries the
\* world and the waiting completions.  copy is the clone of last_frame or,
\* when Clone fails, last_frame itself with one more reference; the
\* reference copy holds is released after the frame was scheduled.
BurstIteration(x, it) ==
  LET w == x.w
      copy == IF it.clone THEN CloneOf(w.output.last_frame)
              ELSE w.output.last_frame
      ps == AudioBufPrependSilence(w.audio_buf)
      w1 == [w EXCEPT !.audio_buf = ps.ab,
                      !.output.last_frame_refs =
                        IF it.clone THEN @ ELSE @ + 1,
                      !.output.silent_sample_count = @ + ps.num_samples]
      deliver == it.nested /\ x.pend # << >>
      calls == deliver /\ Head(x.pend) \in {"Completed", "DisplayedLate", "Dropped"}
      w2 == IF calls THEN on_completed_nested(w1, Head(x.pend)) ELSE w1
      sv == schedule_video_internal(w2, copy, it.fault, FALSE)
      w3 == [sv.w EXCEPT !.output.last_frame_refs =
                           IF it.clone THEN @ ELSE @ - 1,
                         !.output.duplicate_count = @ + 1]
  IN [w |-> w3, pend |-> IF deliver THEN Tail(x.pend) ELSE x.pend]

\* The second pass of the duplication loop, taken when gap_frames is 2.
\* x1 is the state the first pass left.
BurstSecond(x1, its, gap_frames) ==
  IF gap_frames >= 2 THEN BurstIteration(x1, its[2]) ELSE x1

\* The duplication loop as it would be if it ran once whatever gap_frames is.
Burst_Once(x, its) ==
  LET x0 == [x EXCEPT !.w.output.duplicating = TRUE]
      x1 == BurstIteration(x0, its[1])
  IN [x1 EXCEPT !.w.output.duplicating = FALSE]

\* The duplication loop: gap_frames iterations between duplicating := TRUE
\* and duplicating := FALSE.  its gives the parameters of each iteration.
Burst(x, its) ==
  LET x0 == [x EXCEPT !.w.output.duplicating = TRUE]
      xn == IF x.w.output.gap_frames >= 1
            THEN BurstSecond(BurstIteration(x0, its[1]), its,
                             x.w.output.gap_frames)
            ELSE x0
  IN [xn EXCEPT !.w.output.duplicating = FALSE]

on_completed(w, pend, result, qok, its) ==
  LET h == on_completed_head(w, result, qok)
  IN IF h.burst THEN Burst([w |-> h.w, pend |-> pend], its)
     ELSE [w |-> h.w, pend |-> pend]

(***************************************************************************)
(* gst_decklink2_output_stop_internal / gst_decklink2_output_configure     *)
(***************************************************************************)
\* The rest of stop_internal as it would be without prerolled = FALSE.
StopInternalRest_KeepPrerolled(w) ==
  [w EXCEPT !.device = DeviceNew,
            !.output.configured = FALSE,
            !.output.late_count = 0,
            !.output.drop_count = 0,
            !.output.underrun_count = 0,
            !.output.overrun_count = 0,
            !.output.duplicate_count = 0,
            !.output.dropped_sample_count = 0,
            !.output.silent_sample_count = 0]

\* stop_internal after it has released the scheduling lock:
\* StopScheduledPlayback, disable audio and video, clear the callback, reset.
StopInternalRest(w) ==
  [w EXCEPT !.device = DeviceNew,
            !.output.configured = FALSE,
            !.output.prerolled = FALSE,
            !.output.late_count = 0,
            !.output.drop_count = 0,
            !.output.underrun_count = 0,
            !.output.overrun_count = 0,
            !.output.duplicate_count = 0,
            !.output.dropped_sample_count = 0,
            !.output.silent_sample_count = 0]

\* The gap as it would be if half the distance were rounded up.
GapFrames_RoundedUp(min_buffered, max_buffered) ==
  IF max_buffered > min_buffered /\ (max_buffered - min_buffered + 1) \div 2 >= 2
  THEN 2 ELSE 1

\* output->gap_frames = 1; if (max_buffered > min_buffered) { gap = (max -
\* min) / 2; if (gap >= 2) gap_frames = 2; }
GapFrames(min_buffered, max_buffered) ==
  IF max_buffered > min_buffered /\ (max_buffered - min_buffered) \div 2 >= 2
  THEN 2 ELSE 1

ConfigFaults == {"none", "video", "callback", "audio"}

\* The error label as it would be without the disable_video call.
Rollback_KeepVideo(w) ==
  [w EXCEPT !.device.audio = FALSE, !.device.callback = FALSE]

\* The error label of gst_decklink2_output_configure: disable_audio,
\* disable_video, set_video_callback (NULL).
Rollback(w) ==
  [w EXCEPT !.device.audio = FALSE, !.device.video = FALSE,
            !.device.callback = FALSE]

\* gst_decklink2_output_configure after the optional stop_internal.
ConfigureBody(w, a, fault) ==
  LET w0 == [w EXCEPT !.output.selected_mode = a.display_mode]
      err(x) == [w |-> Rollback(x), hr |-> E_FAIL]
      w1 == [w0 EXCEPT !.device.video = TRUE]
      w2 == [w1 EXCEPT !.device.callback = TRUE]
      w3 == [w2 EXCEPT !.output.audio_info = AudioInfoInvalid]
      w4 == IF a.audio_channels > 0
            THEN [w3 EXCEPT !.device.audio = TRUE,
                            !.output.audio_info = AudioInfoS16,
                            !.audio_buf = AudioBufInit(@, AudioInfoS16,
                               a.display_mode.fps_n, a.display_mode.fps_d)]
            ELSE [w3 EXCEPT !.audio_buf = AudioBufDeinit(@)]
      w5 == [w4 EXCEPT !.output.n_prerolled = 0,
                       !.output.n_preroll_frames = a.n_preroll_frames,
                       !.output.min_buffered = a.min_buffered,
                       !.output.max_buffered = a.max_buffered,
                       !.output.n_frames = 0,
                       !.output.n_samples = 0,
                       !.output.configured = TRUE,
                       !.output.pts = 0,
                       !.output.drop_count = 0,
                       !.output.late_count = 0,
                       !.output.underrun_count = 0,
                       !.output.overrun_count = 0,
                       !.output.duplicate_count = 0,
                       !.output.dropped_sample_count = 0,
                       !.output.silent_sample_count = 0,
                       !.output.gap_frames =
                          GapFrames(a.min_buffered, a.max_buffered),
                       !.output.duplicating = FALSE]
  IN IF fault = "video" THEN err(w0)
     ELSE IF fault = "callback" THEN err(w1)
     ELSE IF a.audio_channels > 0 /\ fault = "audio" THEN err(w3)
     ELSE [w |-> w5, hr |-> S_OK]

(***************************************************************************)
(* Initial state: gst_decklink2_output_init on a zeroed object.            *)
(***************************************************************************)
OutputNew ==
  [configured |-> FALSE, prerolled |-> FALSE, n_prerolled |-> 0,
   n_frames |-> 0, n_samples |-> 0, n_preroll_frames |-> 0,
   min_buffered |-> 0, max_buffered |-> 0, gap_frames |-> 0, pts |-> 0,
   duplicating |-> FALSE, last_frame |-> NULL, last_frame_refs |-> 0,
   late_count |-> 0, drop_count |-> 0, underrun_count |-> 0,
   overrun_count |-> 0, duplicate_count |-> 0, dropped_sample_count |-> 0,
   silent_sample_count |-> 0,
   selected_mode |-> [fps_n |-> 0, fps_d |-> 0],
   audio_info |-> AudioInfoInvalid]

NoArg == [audio_buf_size |-> 0]

Methods ==
  {"ScheduleVideoFrame", "ScheduleAudioSamples", "BeginAudioPreroll",
   "EndAudioPreroll", "StartScheduledPlayback"}

NoCalls == [m \in Methods |-> 0]

CountCalls(log, m) == Cardinality({ i \in 1..Len(log) : log[i].call = m })

\* No thread has called into the output yet.  ctl is the position of the
\* thread that changes the configuration and calls the number of its calls,
\* held the locks the thread of the latest step held during that step;
\* stale tells that a stop has begun since the submit in progress passed its
\* overrun test.
ThreadsNew ==
  [ctl |-> "out", calls |-> 0, held |-> {}, stale |-> FALSE,
   owner |-> "none", left |-> 0]

OutInit ==
  /\ threads = ThreadsNew
  /\ output = OutputNew
  /\ audio_buf = AudioBufNew
  /\ device = DeviceNew
  /\ dev_log = << >>
  /\ dev_calls = NoCalls
  /\ pending = << >>
  /\ pc = "idle"
  /\ arg = NoArg
  /\ ret = S_OK

CurWorld == World(output, audio_buf, device, << >>)

SetWorld(w) ==
  /\ output' = w.output
  /\ audio_buf' = w.audio_buf
  /\ device' = w.device
  /\ dev_log' = w.log

(***************************************************************************)
(* Pipeline thread: the calls the sink makes (set_caps, render, stop).     *)
(* A failed render ends streaming with GST_FLOW_ERROR, so after an error   *)
(* the output is used again only through stop or configure.                *)
(***************************************************************************)
\* The locked part of gst_decklink2_output_stop_internal, with which both
\* gst_decklink2_output_stop and gst_decklink2_output_configure on a
\* configured output begin.  On an output that is not configured stop
\* repeats the reset of the stop before it and changes nothing.
StopInternalLocked ==
  /\ pc \in {"idle", "failed"}
  /\ output.configured
  /\ output' = [output EXCEPT !.last_frame = NULL, !.last_frame_refs = 0]
  /\ pc' = "stopping"
  /\ dev_log' = << >>
  /\ UNCHANGED <<audio_buf, device, dev_calls, pending, arg, ret>>
  /\ UNCHANGED <<invars, twin, elemvars, threads>>

\* gst_decklink2_output_stop: the rest of stop_internal.
Stop ==
  /\ pc = "stopping"
  /\ SetWorld(StopInternalRest(CurWorld))
  /\ pending' = << >>
  /\ pc' = "idle"
  /\ ret' = S_OK
  /\ UNCHANGED <<arg, dev_calls>>
  /\ UNCHANGED <<invars, twin, elemvars, threads>>

\* gst_decklink2_output_configure: the rest of the stop_internal it runs on
\* a configured output, then its body.
Configure(n_preroll_frames, min_buffered, max_buffered, mode, channels, fault) ==
  /\ pc = "stopping" \/ (pc \in {"idle", "failed"} /\ ~output.configured)
  /\ LET a == [n_preroll_frames |-> n_preroll_frames,
               min_buffered |-> min_buffered, max_buffered |-> max_buffered,
               display_mode |-> mode, audio_channels |-> channels]
         w0 == IF output.configured THEN StopInternalRest(CurWorld) ELSE CurWorld
         r == ConfigureBody(w0, a, fault)
     IN /\ SetWorld(r.w)
        /\ ret' = r.hr
  /\ dev_calls' = NoCalls
  /\ pending' = << >>
  /\ pc' = "idle"
  /\ UNCHANGED arg
  /\ UNCHANGED <<invars, twin, elemvars, threads>>

\* The dropped samples as they would be counted in bytes.
DroppedSamples_Bytes(o, audio_buf_size) ==
  IF audio_buf_size > 0 /\ o.audio_info.valid THEN audio_buf_size ELSE 0

\* The samples of an overrun drop added to dropped_sample_count.
DroppedSamples(o, audio_buf_size) ==
  IF audio_buf_size > 0 /\ o.audio_info.valid
  THEN audio_buf_size \div o.audio_info.bpf ELSE 0

AudioSizes ==
  IF output.audio_info.valid
  THEN { k * output.audio_info.bpf : k \in 0..MaxAudioSamples } ELSE {0}

\* gst_decklink2_output_schedule_stream under the external lock: the
\* running query and the overrun test.
SubmitCheck(audio_buf_size, qok) ==
  /\ pc = "idle"
  /\ output.configured
  /\ output.n_frames + output.overrun_count < MaxSubmits
  /\ LET active == IsRunning(device)
         drop == active /\ NumBuffered(device) > output.max_buffered
     IN IF ~qok
        THEN /\ pc' = "failed"
             /\ ret' = E_FAIL
             /\ UNCHANGED <<output, arg>>
        ELSE IF drop
        THEN /\ output' =
                  [output EXCEPT !.overrun_count = @ + 1,
                                 !.dropped_sample_count =
                                    @ + DroppedSamples(output, audio_buf_size)]
             /\ pc' = "idle"
             /\ ret' = S_OK
             /\ UNCHANGED arg
        ELSE /\ pc' = "schedule"
             /\ arg' = [NoArg EXCEPT !.audio_buf_size = audio_buf_size]
             /\ UNCHANGED <<output, ret>>
  /\ dev_log' = << >>
  /\ UNCHANGED <<audio_buf, device, dev_calls, pending>>
  /\ UNCHANGED <<invars, twin, elemvars>>

\* The rest of schedule_stream under the scheduling lock: Append and
\* schedule_video_internal.
SubmitSchedule(fault, split) ==
  /\ pc = "schedule"
  /\ LET w1 == [CurWorld EXCEPT !.audio_buf = AudioBufAppend(@, arg.audio_buf_size)]
         r == schedule_video_internal(w1, UploadedFrame(output.last_frame),
                                      fault, split)
     IN /\ SetWorld(r.w)
        /\ ret' = r.hr
        /\ pc' = IF r.hr = S_OK THEN "idle" ELSE "failed"
        /\ dev_calls' = [m \in Methods |-> dev_calls[m] + CountCalls(r.w.log, m)]
  /\ arg' = NoArg
  /\ UNCHANGED pending
  /\ UNCHANGED <<invars, twin, elemvars>>

(***************************************************************************)
(* Driver thread.                                                          *)
(***************************************************************************)
\* "Unknown" stands for any value outside the enumeration.
Results == {"Completed", "DisplayedLate", "Dropped", "Flushed", "Unknown"}

\* The running device finishes with its oldest frame and queues the
\* completion for its callback thread.
DeviceComplete(result) ==
  /\ device.running
  /\ device.callback
  /\ device.frames > 0
  /\ Len(pending) < MaxPending
  /\ output.n_frames < MaxFrames
  /\ device' = [device EXCEPT !.frames = @ - 1]
  /\ pending' = Append(pending, result)
  /\ dev_log' = << >>
  /\ UNCHANGED <<output, audio_buf, dev_calls, pc, arg, ret>>
  /\ UNCHANGED <<invars, twin, elemvars>>

\* The state the completion callback leaves: r.w is the world after
\* on_completed, r.pend the completions still waiting.
CallbackReturns(r) ==
  /\ SetWorld(r.w)
  /\ pending' = r.pend
  /\ dev_calls' = [m \in Methods |-> dev_calls[m] + CountCalls(r.w.log, m)]

\* IGstDeckLinkVideoOutputCallback::ScheduledFrameCompleted
ScheduledFrameCompleted(qok, its) ==
  /\ pending # << >>
  /\ CallbackReturns(
        IF Head(pending) \in {"Completed", "DisplayedLate", "Dropped"}
        THEN on_completed(CurWorld, Tail(pending), Head(pending), qok, its)
        ELSE [w |-> CurWorld, pend |-> Tail(pending)])
  /\ UNCHANGED <<pc, arg, ret>>
  /\ UNCHANGED <<invars, twin, elemvars>>

\* The buffering thresholds the sink passes on: its properties range over
\* 0..16 and can be set at any time, so every combination occurs.  A failing
\* configure does not read them.
PrerollChoices(f) == IF f = "none" THEN 0..MaxPreroll ELSE {0}
MinChoices(f) == IF f = "none" THEN 0..MaxMinBuffered ELSE {0}
MaxChoices(f) == IF f = "none" THEN {0, MaxMaxBuffered} ELSE {0}

\* The iteration parameters a delivery of the waiting completion can use:
\* one per iteration of the burst it starts, none when it starts no burst.
BurstChoices(qok) ==
  IF /\ pending # << >>
     /\ Head(pending) \in {"Completed", "DisplayedLate", "Dropped"}
     /\ on_completed_head(CurWorld, Head(pending), qok).burst
  THEN [1..output.gap_frames ->
           ItParams(output.audio_info.valid, Len(pending) >= 2)]
  ELSE {<< >>}

SubmitFaults == IF output.audio_info.valid THEN Faults ELSE VideoFaults
SplitChoices == IF output.audio_info.valid THEN BOOLEAN ELSE {FALSE}

OutNext ==
  \/ StopInternalLocked
  \/ Stop
  \/ \E f \in ConfigFaults, m \in Modes, ch \in Channels :
        \E p \in PrerollChoices(f), mn \in MinChoices(f), mx \in MaxChoices(f) :
           Configure(p, mn, mx, m, ch, f)
  \/ \E size \in AudioSizes, qok \in BOOLEAN :
        SubmitCheck(size, qok) /\ UNCHANGED threads
  \/ \E f \in SubmitFaults, split \in SplitChoices :
        SubmitSchedule(f, split) /\ UNCHANGED threads
  \/ \E res \in Results : DeviceComplete(res) /\ UNCHANGED threads
  \/ \E qok \in BOOLEAN : \E its \in BurstChoices(qok) :
        ScheduledFrameCompleted(qok, its) /\ UNCHANGED threads

(***************************************************************************)
(* Capture side: gst_decklink2_input_on_frame_arrived and the time         *)
(* mapping it maintains.                                                   *)
(***************************************************************************)
\* Bounds of the capture-side explorations.
MaxMapCalls == 68       \* callbacks delivered while the time mapping is explored
MaxAudioCalls == 3      \* callbacks delivered while the audio tracker is explored
MaxPacketSamples == 2   \* largest sample count of one audio packet
MaxOffsetSkew == 1      \* largest distance of a declared offset from the expected one

INVALID_AUDIO_OFFSET == -1
GST_CLOCK_TIME_NONE == -1
WindowSize == 64
DEFAULT_BUFFER_SIZE == 5

\* The display mode the input was started with.
InputModes == { [fps_n |-> 60000, fps_d |-> 1001] }

TimeMapping(xbase, b, num, den) == [xbase |-> xbase, b |-> b, num |-> num, den |-> den]

\* gst_clock_adjust_with_calibration (NULL, internal, cinternal, cexternal,
\* cnum, cdenom) of the core library.
gst_clock_adjust_with_calibration(internal, cinternal, cexternal, cnum, cdenom) ==
  LET n == IF cdenom = 0 THEN 1 ELSE cnum
      d == IF cdenom = 0 THEN 1 ELSE cdenom
  IN IF internal >= cinternal
       THEN gst_util_uint64_scale(internal - cinternal, n, d) + cexternal
       ELSE LET r == gst_util_uint64_scale(cinternal - internal, n, d)
            IN IF cexternal > r THEN cexternal - r ELSE 0

ApplyMapping(m, t) == gst_clock_adjust_with_calibration(t, m.xbase, m.b, m.num, m.den)

gst_decklink2_input_reset_time_mapping(s) ==
  [s EXCEPT !.window_size = WindowSize,
            !.window_fill = 0,
            !.window_filled = FALSE,
            !.window_skip = 1,
            !.window_skip_count = 0,
            !.current_time_mapping = TimeMapping(0, 0, 1, 1),
            !.next_time_mapping = TimeMapping(0, 0, 1, 1)]

\* guint fps = ((gdouble) fps_n + fps_d - 1) / ((gdouble) fps_d)
RoundedUpFps(mode) == (mode.fps_n + mode.fps_d - 1) \div mode.fps_d

\* The most the value of the mapping may move in one update.
MaxDiff(mode) == gst_util_uint64_scale(GST_SECOND \div 20, mode.fps_d, mode.fps_n)

\* The dead band that never engages.
ExceedsBudget_Never(diff, max_diff) == FALSE

ExceedsBudget(diff, max_diff) == diff > max_diff

\* The nudge that forgets to re-anchor the mapping at the stream time.
Nudge_KeepAnchor(cur, expected, new_calculated, max_diff, stream_time) ==
  [cur EXCEPT !.b = IF new_calculated > expected
                      THEN expected + max_diff ELSE expected - max_diff]

\* "adjust so that we move that much closer"
Nudge(cur, expected, new_calculated, max_diff, stream_time) ==
  [cur EXCEPT !.b = IF new_calculated > expected
                      THEN expected + max_diff ELSE expected - max_diff,
              !.xbase = stream_time]

\* The tail that gives up the pending mapping once it has nudged.
PromoteOrNudge_NoRetry(s, stream_time) ==
  LET cur == s.current_time_mapping
      nxt == s.next_time_mapping
      expected == ApplyMapping(cur, stream_time)
      new_calculated == ApplyMapping(nxt, stream_time)
      diff == IF new_calculated > expected
                THEN new_calculated - expected ELSE expected - new_calculated
      max_diff == MaxDiff(s.selected_mode)
  IN IF ExceedsBudget(diff, max_diff)
       THEN [s EXCEPT !.current_time_mapping =
                         Nudge(cur, expected, new_calculated, max_diff, stream_time),
                      !.next_time_mapping_pending = FALSE]
       ELSE [s EXCEPT !.current_time_mapping = nxt,
                      !.next_time_mapping_pending = FALSE]

\* The tail of update_time_mapping, run while a mapping is pending.
PromoteOrNudge(s, stream_time) ==
  LET cur == s.current_time_mapping
      nxt == s.next_time_mapping
      expected == ApplyMapping(cur, stream_time)
      new_calculated == ApplyMapping(nxt, stream_time)
      diff == IF new_calculated > expected
                THEN new_calculated - expected ELSE expected - new_calculated
      max_diff == MaxDiff(s.selected_mode)
  IN IF ExceedsBudget(diff, max_diff)
       THEN [s EXCEPT !.current_time_mapping =
                         Nudge(cur, expected, new_calculated, max_diff, stream_time)]
       ELSE [s EXCEPT !.current_time_mapping = nxt,
                      !.next_time_mapping_pending = FALSE]

\* No result: gst_calculate_linear_regression returned FALSE.
NoRegression == [ok |-> FALSE, xbase |-> 0, b |-> 0, num |-> 1, den |-> 1]

\* The update as it would be if the regression were used before the window
\* has filled.
gst_decklink2_input_update_time_mapping_Eager(s, capture_time, stream_time, reg) ==
  LET sampling == s.window_skip_count = 0
      cnt == s.window_skip_count + 1
      s1 == [s EXCEPT !.window_skip_count = IF cnt >= s.window_skip THEN 0 ELSE cnt,
                      !.window_fill = IF sampling THEN @ + 1 ELSE @]
      full == sampling /\ s1.window_fill >= s1.window_size
      cap == 4 * RoundedUpFps(s.selected_mode)
      doubled == IF s1.window_skip < cap THEN s1.window_skip * 2 ELSE s1.window_skip
      s2 == IF full
              THEN [s1 EXCEPT !.window_skip = IF doubled >= cap THEN cap ELSE doubled,
                              !.window_fill = 0,
                              !.window_filled = TRUE]
              ELSE s1
      first == sampling /\ ~s2.window_filled /\ s2.window_fill = 1
      s3 == IF first
              THEN [s2 EXCEPT !.current_time_mapping =
                                 TimeMapping(stream_time, capture_time, 1, 1),
                              !.next_time_mapping_pending = FALSE]
              ELSE s2
      s4 == IF sampling /\ reg.ok
              THEN [s3 EXCEPT !.next_time_mapping =
                                 TimeMapping(reg.xbase, reg.b, reg.num, reg.den),
                              !.next_time_mapping_pending = TRUE]
              ELSE s3
  IN IF s4.next_time_mapping_pending THEN PromoteOrNudge(s4, stream_time) ELSE s4

\* The update as it would be if the skip counter wrapped one call late.
gst_decklink2_input_update_time_mapping_LateWrap(s, capture_time, stream_time, reg) ==
  LET sampling == s.window_skip_count = 0
      cnt == s.window_skip_count + 1
      s1 == [s EXCEPT !.window_skip_count = IF cnt > s.window_skip THEN 0 ELSE cnt,
                      !.window_fill = IF sampling THEN @ + 1 ELSE @]
      full == sampling /\ s1.window_fill >= s1.window_size
      cap == 4 * RoundedUpFps(s.selected_mode)
      doubled == IF s1.window_skip < cap THEN s1.window_skip * 2 ELSE s1.window_skip
      s2 == IF full
              THEN [s1 EXCEPT !.window_skip = IF doubled >= cap THEN cap ELSE doubled,
                              !.window_fill = 0,
                              !.window_filled = TRUE]
              ELSE s1
      first == sampling /\ ~s2.window_filled /\ s2.window_fill = 1
      s3 == IF first
              THEN [s2 EXCEPT !.current_time_mapping =
                                 TimeMapping(stream_time, capture_time, 1, 1),
                              !.next_time_mapping_pending = FALSE]
              ELSE s2
      s4 == IF sampling /\ s3.window_filled /\ reg.ok
              THEN [s3 EXCEPT !.next_time_mapping =
                                 TimeMapping(reg.xbase, reg.b, reg.num, reg.den),
                              !.next_time_mapping_pending = TRUE]
              ELSE s3
  IN IF s4.next_time_mapping_pending THEN PromoteOrNudge(s4, stream_time) ELSE s4

\* reg is what gst_calculate_linear_regression makes of the window's samples.
gst_decklink2_input_update_time_mapping(s, capture_time, stream_time, reg) ==
  LET sampling == s.window_skip_count = 0
      cnt == s.window_skip_count + 1
      s1 == [s EXCEPT !.window_skip_count = IF cnt >= s.window_skip THEN 0 ELSE cnt,
                      !.window_fill = IF sampling THEN @ + 1 ELSE @]
      full == sampling /\ s1.window_fill >= s1.window_size
      cap == 4 * RoundedUpFps(s.selected_mode)
      doubled == IF s1.window_skip < cap THEN s1.window_skip * 2 ELSE s1.window_skip
      s2 == IF full
              THEN [s1 EXCEPT !.window_skip = IF doubled >= cap THEN cap ELSE doubled,
                              !.window_fill = 0,
                              !.window_filled = TRUE]
              ELSE s1
      first == sampling /\ ~s2.window_filled /\ s2.window_fill = 1
      s3 == IF first
              THEN [s2 EXCEPT !.current_time_mapping =
                                 TimeMapping(stream_time, capture_time, 1, 1),
                              !.next_time_mapping_pending = FALSE]
              ELSE s2
      s4 == IF sampling /\ s3.window_filled /\ reg.ok
              THEN [s3 EXCEPT !.next_time_mapping =
                                 TimeMapping(reg.xbase, reg.b, reg.num, reg.den),
                              !.next_time_mapping_pending = TRUE]
              ELSE s3
  IN IF s4.next_time_mapping_pending THEN PromoteOrNudge(s4, stream_time) ELSE s4

\* Whether this update hands the window to the regression.
Regresses(s) ==
  /\ s.window_skip_count = 0
  /\ s.window_filled \/ s.window_fill + 1 >= s.window_size

(***************************************************************************)
(* Audio samples: a captured sample is known by the offset its packet      *)
(* declares for it, a synthesised one is silent.                           *)
(***************************************************************************)
Sample(offset) == [silent |-> FALSE, offset |-> offset]
SilentSample == [silent |-> TRUE, offset |-> 0]

\* The buffer the packet's data is copied into.
PacketSamples(d, n) == [i \in 1..n |-> Sample(d + i - 1)]

\* gst_audio_format_info_fill_silence over a buffer of diff samples.
Silence(diff) == [i \in 1..diff |-> SilentSample]

\* gst_audio_buffer_truncate (buffer, bpf, trim, samples) of the audio library.
gst_audio_buffer_truncate(buf, trim, samples) == SubSeq(buf, trim + 1, trim + samples)

\* The expected offset advanced by the raw packet size.
AdvanceAfterTrim_Raw(next, count, sample_count) == next + sample_count

\* self->next_audio_offset += count
AdvanceAfterTrim(next, count, sample_count) == next + count

\* A gap filled one sample short.
GapSamples_Short(next, audio_offset) == audio_offset - next - 1

\* gsize diff = audio_offset - self->next_audio_offset
GapSamples(next, audio_offset) == audio_offset - next

\* The first offset of the captured audio on the pipeline's timeline.
InitialAudioOffset(s, packet_time) ==
  LET packet_time_in_gst == gst_util_uint64_scale(GST_SECOND, packet_time, AudioRate)
      audio_pts == ApplyMapping(s.current_time_mapping, packet_time_in_gst)
  IN gst_util_uint64_scale(audio_pts, AudioRate, GST_SECOND)

\* The packet whose count, time and data were read: what is pushed into the
\* adapter and how the tracker moves.
ReconcilePacket(s, packet_time, sample_count) ==
  LET audio_offset == packet_time
      audio_offset_end == audio_offset + sample_count
      buf == PacketSamples(audio_offset, sample_count)
      s1 == IF s.audio_offset = INVALID_AUDIO_OFFSET
              THEN [s EXCEPT !.audio_offset = InitialAudioOffset(s, packet_time)]
              ELSE s
      next == s1.next_audio_offset
  IN IF next = INVALID_AUDIO_OFFSET
       THEN [s |-> [s1 EXCEPT !.next_audio_offset = audio_offset_end],
             pushed |-> buf]
     ELSE IF next # audio_offset
       THEN LET s2 == [s1 EXCEPT !.audio_discont = TRUE]
            IN IF next > audio_offset
                 THEN LET trim == next - audio_offset
                          count == sample_count - trim
                      IN IF trim >= sample_count
                           THEN [s |-> s2, pushed |-> << >>]
                           ELSE [s |-> [s2 EXCEPT !.next_audio_offset =
                                           AdvanceAfterTrim(next, count, sample_count)],
                                 pushed |-> gst_audio_buffer_truncate(buf, trim, count)]
                 ELSE LET diff == GapSamples(next, audio_offset)
                      IN [s |-> [s2 EXCEPT !.next_audio_offset =
                                              next + sample_count + diff],
                          pushed |-> Silence(diff) \o buf]
     ELSE [s |-> [s1 EXCEPT !.next_audio_offset = next + sample_count],
           pushed |-> buf]

\* What can go wrong in one callback: at most one of the calls it makes fails.
InputFaults == {"none", "no_clock", "frame_bytes", "stream_time",
                "packet_time", "packet_bytes"}

\* The "if (packet)" block as it would be if a packet of a callback whose
\* capture time is past the device's stream time were left out.
AudioStage_DropLate(s, in) ==
  LET skipped == [s |-> s, pushed |-> << >>, reconciled |-> FALSE]
  IN IF ~in.packet THEN skipped
     ELSE IF s.audio_offset = INVALID_AUDIO_OFFSET /\ ~in.frame THEN skipped
     ELSE IF in.n = 0 THEN skipped
     ELSE IF in.fault \in {"packet_time", "packet_bytes"} THEN skipped
     ELSE IF in.capture_time > in.stream_time THEN skipped
     ELSE LET r == ReconcilePacket(s, in.d, in.n)
          IN [s |-> r.s, pushed |-> r.pushed, reconciled |-> TRUE]

\* The "if (packet)" block.
AudioStage(s, in) ==
  LET skipped == [s |-> s, pushed |-> << >>, reconciled |-> FALSE]
  IN IF ~in.packet THEN skipped
     ELSE IF s.audio_offset = INVALID_AUDIO_OFFSET /\ ~in.frame THEN skipped
     ELSE IF in.n = 0 THEN skipped
     ELSE IF in.fault \in {"packet_time", "packet_bytes"} THEN skipped
     ELSE LET r == ReconcilePacket(s, in.d, in.n)
          IN [s |-> r.s, pushed |-> r.pushed, reconciled |-> TRUE]

\* GST_BUFFER_PTS of an audio buffer taken at audio_offset.  The scaled
\* value of an offset that is still INVALID_AUDIO_OFFSET (G_MAXUINT64) does
\* not fit 64 bits and gst_util_uint64_scale returns G_MAXUINT64 for it.
AudioBufferPts(audio_offset) ==
  IF audio_offset = INVALID_AUDIO_OFFSET THEN GST_CLOCK_TIME_NONE
  ELSE gst_util_uint64_scale(audio_offset, GST_SECOND, AudioRate)

\* The "out:" block, run when a video buffer was made.
Enqueue(s, ad, q, buffer) ==
  LET kept == IF Len(q) > s.buffer_size
                THEN SubSeq(q, Len(q) - s.buffer_size + 1, Len(q)) ELSE q
      data == [frame |-> buffer.frame,
               pts |-> buffer.pts, dur |-> buffer.dur,
               gap |-> buffer.gap, audio |-> ad,
               audio_offset |-> IF Len(ad) > 0 THEN s.audio_offset ELSE 0,
               audio_pts |-> IF Len(ad) > 0 THEN AudioBufferPts(s.audio_offset)
                             ELSE GST_CLOCK_TIME_NONE,
               discont |-> Len(ad) > 0 /\ s.audio_discont]
  IN [s |-> IF Len(ad) > 0
              THEN [s EXCEPT !.audio_offset = @ + Len(ad), !.audio_discont = FALSE]
              ELSE s,
      adapter |-> << >>,
      queue |-> Append(kept, data)]

\* The stream time the device stamps on its k-th frame, in nanoseconds.
StreamTime(mode, k) == gst_util_uint64_scale(k * mode.fps_d, GST_SECOND, mode.fps_n)

\* The duration the device reports with a frame's stream time, in
\* nanoseconds.
StreamDuration(mode) == gst_util_uint64_scale(mode.fps_d, GST_SECOND, mode.fps_n)

\* The "out:" block and the return: the buffer, when the callback made
\* one, is queued with the audio collected so far.  s1 is the input after
\* the signal test, pts the buffer's time, au the outcome of the audio
\* block.
on_frame_out(s1, pts, au, ad, q, in, a0) ==
  LET ad1 == ad \o au.pushed
      a1 == [a0 EXCEPT !.mapped = in.frame /\ in.fault # "stream_time",
                       !.pts = IF in.frame THEN pts ELSE 0,
                       !.reconciled = au.reconciled, !.pushed = au.pushed]
  IN IF in.frame
       THEN LET e == Enqueue(au.s, ad1, q,
                         [frame |-> in.k, pts |-> pts,
                          dur |-> IF in.fault # "stream_time"
                                    THEN gst_util_uint64_scale(
                                           StreamDuration(au.s.selected_mode),
                                           au.s.current_time_mapping.num,
                                           au.s.current_time_mapping.den)
                                    ELSE GST_CLOCK_TIME_NONE,
                          gap |-> ~s1.signal])
            IN [s |-> e.s, adapter |-> e.adapter, queue |-> e.queue,
                arrival |-> [a1 EXCEPT !.outcome = "queued"]]
       ELSE [s |-> au.s, adapter |-> ad1, queue |-> q,
             arrival |-> [a1 EXCEPT !.outcome = "audio_only"]]

\* The buffer's time and the audio block.  s2 is the input after the time
\* mapping was updated.
on_frame_audio(s1, s2, ad, q, in, a0) ==
  on_frame_out(s1,
               IF in.frame /\ in.fault # "stream_time"
                 THEN ApplyMapping(s2.current_time_mapping, in.stream_time)
                 ELSE in.capture_time,
               AudioStage(s2, in), ad, q, in, a0)

\* The callback as it would be if a frame updated the time mapping whether
\* or not its stream time was read.
on_frame_mapped_Always(s1, ad, q, in, a0) ==
  on_frame_audio(s1,
                 IF in.frame
                   THEN gst_decklink2_input_update_time_mapping(
                          s1, in.capture_time, in.stream_time, in.reg)
                   ELSE s1,
                 ad, q, in, a0)

\* The callback from the stream time on: a frame whose stream time was read
\* updates the time mapping.
on_frame_mapped(s1, ad, q, in, a0) ==
  on_frame_audio(s1,
                 IF in.frame /\ in.fault # "stream_time"
                   THEN gst_decklink2_input_update_time_mapping(
                          s1, in.capture_time, in.stream_time, in.reg)
                   ELSE s1,
                 ad, q, in, a0)

NoArrival ==
  [outcome |-> "none", frame |-> FALSE, stream_time |-> 0, mapped |-> FALSE,
   before |-> 0, pts |-> 0, packet |-> FALSE, d |-> 0, n |-> 0,
   next |-> INVALID_AUDIO_OFFSET, reconciled |-> FALSE, pushed |-> << >>]

\* gst_decklink2_input_on_frame_arrived.  in.frame / in.packet: the frame
\* and the packet are not NULL; in.no_source: bmdFrameHasNoInputSource;
\* in.capture_time: the pipeline's running time, less the hardware latency;
\* in.stream_time: the frame's stream time; in.d, in.n: the packet's time in
\* samples and its sample count.
on_frame_arrival(s, in) ==
  [NoArrival EXCEPT !.frame = in.frame, !.packet = in.packet,
                    !.stream_time = in.stream_time,
                    !.d = in.d, !.n = in.n,
                    !.before = ApplyMapping(s.current_time_mapping,
                                            in.stream_time),
                    !.next = s.next_audio_offset]

\* The part before priv->lock is taken: the two atomic flags are read and
\* written; restart tells that the signal has come back.
on_frame_prologue(s, in) ==
  LET restart == in.frame /\ ~s.was_restarted /\ ~in.no_source /\ ~s.signal
  IN [restart |-> restart,
      s |-> IF ~in.frame THEN s
            ELSE IF s.was_restarted THEN [s EXCEPT !.was_restarted = FALSE]
            ELSE IF in.no_source THEN [s EXCEPT !.signal = FALSE]
            ELSE IF restart THEN [s EXCEPT !.signal = TRUE,
                                           !.was_restarted = TRUE]
            ELSE [s EXCEPT !.signal = TRUE]]

\* The signal has come back: the mapping is reset, the streams are stopped,
\* flushed and started, the pending audio and the offsets are dropped, all
\* without priv->lock, and the callback returns.
on_frame_restore(s, q, in) ==
  [s |-> [gst_decklink2_input_reset_time_mapping(s) EXCEPT
             !.audio_offset = INVALID_AUDIO_OFFSET,
             !.next_audio_offset = INVALID_AUDIO_OFFSET],
   adapter |-> << >>, queue |-> q,
   arrival |-> [on_frame_arrival(s, in) EXCEPT !.outcome = "restarted"]]

\* The part under priv->lock.
on_frame_locked(s, ad, q, in) ==
  LET a0 == on_frame_arrival(s, in)
  IN IF ~s.client \/ in.fault = "no_clock"
       THEN [s |-> s, adapter |-> ad, queue |-> q,
             arrival |-> [a0 EXCEPT !.outcome = "no_clock"]]
     ELSE IF in.frame /\ in.fault = "frame_bytes"
       THEN [s |-> s, adapter |-> ad, queue |-> q,
             arrival |-> [a0 EXCEPT !.outcome = "no_bytes"]]
     ELSE on_frame_mapped(s, ad, q, in, a0)

on_frame_arrived(s, ad, q, in) ==
  LET p == on_frame_prologue(s, in)
  IN IF p.restart THEN on_frame_restore(p.s, q, in)
     ELSE on_frame_locked(p.s, ad, q, in)

(***************************************************************************)
(* The streaming thread inside gst_decklink2_input_get_data.               *)
(***************************************************************************)
GST_FLOW_OK == "GST_FLOW_OK"
GST_FLOW_FLUSHING == "GST_FLOW_FLUSHING"
GST_DECKLINK2_INPUT_FLOW_STOPPED == "GST_DECKLINK2_INPUT_FLOW_STOPPED"

\* *buf = nullptr
NoBuffer ==
  [frame |-> 0, pts |-> 0, dur |-> 0, gap |-> FALSE, audio |-> << >>,
   audio_offset |-> 0, audio_pts |-> GST_CLOCK_TIME_NONE, discont |-> FALSE]

\* pc: "out" (not inside get_data), "waiting" (inside cond.wait) or "woken"
\* (notified, about to take the lock again).  ret and buf are what the
\* latest call returned, wake and unit why the thread was last notified and,
\* for a push, the frame that was pushed; last is the frame of the latest
\* buffer it was given.
ConsumerNew ==
  [pc |-> "out", ret |-> "none", buf |-> NoBuffer,
   wake |-> "none", unit |-> 0, last |-> 0]

\* cond.notify_all () as it would be if it woke nobody.
notify_none(c, why, k) == c

\* priv->cond.notify_all (): a thread inside cond.wait leaves it.
notify_all(c, why, k) ==
  IF c.pc = "waiting"
    THEN [c EXCEPT !.pc = "woken", !.wake = why, !.unit = k]
    ELSE c

\* The condition of the wait loop of get_data.
MustWait(s, q) == q = << >> /\ ~s.flushing /\ s.started

\* get_data after its wait loop, as it would be if it handed out the newest
\* buffer.
get_data_Newest(s, q) ==
  IF s.flushing
    THEN [ret |-> GST_FLOW_FLUSHING, buf |-> NoBuffer, queue |-> q]
  ELSE IF ~s.started
    THEN [ret |-> GST_DECKLINK2_INPUT_FLOW_STOPPED, buf |-> NoBuffer, queue |-> q]
  ELSE [ret |-> GST_FLOW_OK, buf |-> q[Len(q)], queue |-> SubSeq(q, 1, Len(q) - 1)]

\* gst_decklink2_input_get_data after its wait loop.
get_data(s, q) ==
  IF s.flushing
    THEN [ret |-> GST_FLOW_FLUSHING, buf |-> NoBuffer, queue |-> q]
  ELSE IF ~s.started
    THEN [ret |-> GST_DECKLINK2_INPUT_FLOW_STOPPED, buf |-> NoBuffer, queue |-> q]
  ELSE [ret |-> GST_FLOW_OK, buf |-> Head(q), queue |-> Tail(q)]

\* gst_decklink2_input_stop_unlocked as it would be without clearing the
\* queue.
stop_unlocked_KeepQueue(s, q) ==
  [s |-> [s EXCEPT !.signal = FALSE, !.was_restarted = FALSE,
                   !.started = FALSE],
   queue |-> q]

\* gst_decklink2_input_stop_unlocked
stop_unlocked(s, q) ==
  [s |-> [s EXCEPT !.signal = FALSE, !.was_restarted = FALSE,
                   !.started = FALSE],
   queue |-> << >>]

\* The device before it has delivered anything.  frames: the frames it has
\* delivered; calls: the callbacks it has made; epoch: the frames delivered
\* when the callback last restarted the streams; stopped: the frames
\* delivered when StopStreams was last called from stop_unlocked; unread:
\* the frames queued whose GetStreamTime failed.
HwNew == [frames |-> 0, calls |-> 0, epoch |-> 0, stopped |-> 0, unread |-> 0]

\* The input after gst_decklink2_input_start.
InputNew(mode) ==
  [signal |-> FALSE, was_restarted |-> FALSE,
   selected_mode |-> mode, buffer_size |-> DEFAULT_BUFFER_SIZE,
   window_size |-> WindowSize, window_fill |-> 0, window_filled |-> FALSE,
   window_skip |-> 1, window_skip_count |-> 0,
   current_time_mapping |-> TimeMapping(0, 0, 1, 1),
   next_time_mapping |-> TimeMapping(0, 0, 1, 1),
   next_time_mapping_pending |-> FALSE,
   audio_offset |-> INVALID_AUDIO_OFFSET,
   next_audio_offset |-> INVALID_AUDIO_OFFSET,
   audio_discont |-> FALSE,
   flushing |-> FALSE, started |-> TRUE, client |-> TRUE]

\* A second session after gst_decklink2_input_start.  frames: the frames
\* its device has delivered; aligned: every callback so far came with a frame
\* in both sessions or in neither.
TwinNew ==
  [s |-> InputNew(CHOOSE m \in InputModes : TRUE), adapter |-> << >>,
   arrival |-> NoArrival, frames |-> 0, aligned |-> TRUE]

InInit ==
  /\ input \in { InputNew(m) : m \in InputModes }
  /\ adapter = << >>
  /\ queue = << >>
  /\ hw = HwNew
  /\ arrival = NoArrival
  /\ consumer = ConsumerNew
  /\ twin = TwinNew

\* The state the callback leaves: r is what on_frame_arrived returned, k
\* the number of frames the device has delivered.
ArrivalReturns(r, k) ==
  /\ input' = r.s
  /\ adapter' = r.adapter
  /\ queue' = r.queue
  /\ arrival' = r.arrival
  /\ hw' = [hw EXCEPT !.frames = k, !.calls = @ + 1,
                       !.epoch = IF r.arrival.outcome = "restarted"
                                   THEN k ELSE @,
                       !.unread = IF /\ r.arrival.outcome = "queued"
                                     /\ ~r.arrival.mapped
                                    THEN @ + 1 ELSE @]
  /\ consumer' = IF r.arrival.outcome = "queued"
                   THEN notify_all(consumer, "push", k) ELSE consumer

\* The driver thread delivers one callback.  Every frame carries the next
\* stream time of the device.
FrameArrived(frame, no_source, fault, latency, reg, packet, d, n) ==
  LET k == IF frame THEN hw.frames + 1 ELSE hw.frames
      t == IF frame THEN StreamTime(input.selected_mode, k) ELSE 0
  IN /\ ArrivalReturns(
          on_frame_arrived(input, adapter, queue,
            [frame |-> frame, k |-> k, no_source |-> no_source, fault |-> fault,
             stream_time |-> t, capture_time |-> t + latency, reg |-> reg,
             packet |-> packet, d |-> d, n |-> n]), k)
     /\ UNCHANGED outvars

(***************************************************************************)
(* gstdecklink2object.cpp: the device registry.  device_list is filled     *)
(* once, under device_lock, and every acquire and release runs under the   *)
(* same lock: each call is one step.                                       *)
(***************************************************************************)
MaxElements == 2        \* source elements, and sink elements, of the process

\* A NULL GstDeckLink2Input / GstDeckLink2Output pointer.  An object's input
\* and output are named by the device_number of the object that owns them.
NULL_OBJECT == -1

\* persistent-id property value that selects the device by device-number.
DEFAULT_PERSISTENT_ID == -1

\* gst_decklink2_object_new: has_input / has_output tell whether the device
\* exposes IDeckLinkInput / IDeckLinkOutput (object->input, object->output).
DeviceObject(device_number, persistent_id, has_input, has_output) ==
  [device_number |-> device_number, persistent_id |-> persistent_id,
   input |-> IF has_input THEN device_number ELSE NULL_OBJECT,
   output |-> IF has_output THEN device_number ELSE NULL_OBJECT,
   input_acquired |-> FALSE, output_acquired |-> FALSE]

\* The devices the iterator reports, in its order: a capture and playback
\* card, a capture-only card and a playback-only card.
InstalledDevices ==
  << DeviceObject(0, 30, TRUE, TRUE), DeviceObject(1, 10, TRUE, FALSE),
     DeviceObject(2, 20, FALSE, TRUE) >>

\* std::sort by persistent_id (the ids of the installation are distinct).
RECURSIVE SortByPersistentId(_)
SortByPersistentId(list) ==
  IF list = << >> THEN << >>
  ELSE LET i == CHOOSE i \in DOMAIN list :
                  \A j \in DOMAIN list :
                     list[i].persistent_id <= list[j].persistent_id
           rest == [k \in 1..(Len(list) - 1) |->
                      IF k < i THEN list[k] ELSE list[k + 1]]
       IN <<list[i]>> \o SortByPersistentId(rest)

gst_decklink2_device_init == SortByPersistentId(InstalledDevices)

\* The lookup both acquire functions start with: by persistent id when one
\* is given, with no fallback to the device number, else by device number.
\* std::find_if returns the first match; 0 stands for device_list.end ().
FindTarget(list, device_number, persistent_id) ==
  LET found == IF persistent_id # DEFAULT_PERSISTENT_ID
                 THEN { i \in DOMAIN list :
                          list[i].persistent_id = persistent_id }
                 ELSE { i \in DOMAIN list :
                          list[i].device_number = device_number }
  IN IF found = {} THEN 0
     ELSE CHOOSE i \in found : \A j \in found : i <= j

gst_decklink2_acquire_input_NoCheck(list, device_number, persistent_id) ==
  LET target == FindTarget(list, device_number, persistent_id)
  IN IF target = 0 THEN [list |-> list, ret |-> NULL_OBJECT]
     ELSE IF list[target].input = NULL_OBJECT
       THEN [list |-> list, ret |-> NULL_OBJECT]
     ELSE [list |-> [list EXCEPT ![target].input_acquired = TRUE],
           ret |-> list[target].input]

gst_decklink2_acquire_input(list, device_number, persistent_id) ==
  LET target == FindTarget(list, device_number, persistent_id)
  IN IF target = 0 THEN [list |-> list, ret |-> NULL_OBJECT]
     ELSE IF list[target].input = NULL_OBJECT
       THEN [list |-> list, ret |-> NULL_OBJECT]
     ELSE IF list[target].input_acquired
       THEN [list |-> list, ret |-> NULL_OBJECT]
     ELSE [list |-> [list EXCEPT ![target].input_acquired = TRUE],
           ret |-> list[target].input]

gst_decklink2_acquire_output(list, device_number, persistent_id) ==
  LET target == FindTarget(list, device_number, persistent_id)
  IN IF target = 0 THEN [list |-> list, ret |-> NULL_OBJECT]
     ELSE IF list[target].output = NULL_OBJECT
       THEN [list |-> list, ret |-> NULL_OBJECT]
     ELSE IF list[target].output_acquired
       THEN [list |-> list, ret |-> NULL_OBJECT]
     ELSE [list |-> [list EXCEPT ![target].output_acquired = TRUE],
           ret |-> list[target].output]

\* The parent object is the first whose input (output) is the one given; an
\* object that is not in the list changes nothing.
gst_decklink2_release_input(list, in) ==
  LET found == { i \in DOMAIN list : list[i].input = in }
  IN IF found = {} THEN list
     ELSE LET i == CHOOSE i \in found : \A j \in found : i <= j
          IN [list EXCEPT ![i].input_acquired = FALSE]

gst_decklink2_release_output(list, out) ==
  LET found == { i \in DOMAIN list : list[i].output = out }
  IN IF found = {} THEN list
     ELSE LET i == CHOOSE i \in found : \A j \in found : i <= j
          IN [list EXCEPT ![i].output_acquired = FALSE]

\* The clients: decklink2src elements keep the input they acquired in
\* self->input, decklink2sink elements the output in self->output.
SrcElements == { <<"src", n>> : n \in 1..MaxElements }
SinkElements == { <<"sink", n>> : n \in 1..MaxElements }

\* The values of the device-number and persistent-id properties tried: the
\* installed devices and one that is not installed.
DeviceNumbers == 0..Len(InstalledDevices)
PersistentIds == {DEFAULT_PERSISTENT_ID, 10, 20, 30, 40}

\* An element that was never started: self->input (self->output) is NULL.
\* last records what the latest start or stop of the element returned to.
ElementNew == [object |-> NULL_OBJECT, last |-> "new"]

\* No callback is running and no thread is inside gst_decklink2_input_start.
\* cb: "idle", "prologue" (before the test of the flags), "restore" (in the
\* reset of a frame that brings the signal back), "format" (in
\* on_format_changed), "wait" (at priv->lock) or "locked"; pl: "out" or
\* "start"; lock: the holder of priv->lock; entered: callbacks begun.
CapNew ==
  [cb |-> "idle", pl |-> "out", lock |-> "none", entered |-> 0,
   in |-> [frame |-> FALSE, k |-> 0, no_source |-> FALSE, fault |-> "none",
           stream_time |-> 0, capture_time |-> 0, reg |-> NoRegression,
           packet |-> FALSE, d |-> 0, n |-> 0]]

(***************************************************************************)
(* gstdecklink2sink.cpp: the element that owns the output.                 *)
(***************************************************************************)
DEFAULT_N_PREROLL_FRAMES == 7
DEFAULT_MIN_BUFFERED_FRAMES == 3
DEFAULT_MAX_BUFFERED_FRAMES == 14
DEFAULT_DESYNC_THRESHOLD == 250 * (GST_SECOND \div 1000)

\* The three buffering thresholds of the sink, in the order configure takes
\* them.
Thresholds(s) ==
  <<s.n_preroll_frames, s.min_buffered_frames, s.max_buffered_frames>>

NoThresholds == << >>

\* gst_decklink2_sink_init.  output is the object start acquired or NULL,
\* negotiated tells that the latest set_caps returned TRUE, flow is what the
\* latest render returned, at_start the thresholds start left and passed
\* those given to the latest configure call since start; asserted tells that
\* g_assert (output->configured) failed, calls counts the handlers run.
SinkNew ==
  [output |-> NULL_OBJECT,
   n_preroll_frames |-> DEFAULT_N_PREROLL_FRAMES,
   min_buffered_frames |-> DEFAULT_MIN_BUFFERED_FRAMES,
   max_buffered_frames |-> DEFAULT_MAX_BUFFERED_FRAMES,
   auto_restart |-> FALSE,
   desync_threshold |-> DEFAULT_DESYNC_THRESHOLD,
   audio_channels |-> 0,
   configured |-> FALSE, schedule_restart |-> FALSE,
   negotiated |-> FALSE, flow |-> "ok", asserted |-> FALSE,
   last |-> "new", calls |-> 0,
   at_start |-> NoThresholds, passed |-> NoThresholds]

\* The element as a launch line that sets the properties leaves it: no
\* preroll, one frame of headroom, restart on the first drop or on any
\* difference between the buffered audio and video.
SinkTuned ==
  [SinkNew EXCEPT !.n_preroll_frames = 0, !.min_buffered_frames = 0,
                  !.max_buffered_frames = 1, !.auto_restart = TRUE,
                  !.desync_threshold = 1]

OwnInit ==
  /\ capture = CapNew
  /\ device_list = gst_decklink2_device_init
  /\ elements = [e \in SrcElements \cup SinkElements |-> ElementNew]

ElemInit == OwnInit /\ sink = SinkNew

\* gst_decklink2_src_start: basesrc starts an element that is not started,
\* and the start fails when no input was acquired.
AcquireInput(e, device_number, persistent_id) ==
  LET r == gst_decklink2_acquire_input(device_list, device_number,
                                       persistent_id)
  IN /\ elements[e].object = NULL_OBJECT
     /\ device_list' = r.list
     /\ elements' = [elements EXCEPT ![e] =
                       [object |-> r.ret,
                        last |-> IF r.ret = NULL_OBJECT
                                   THEN "start_failed" ELSE "started"]]

\* gst_decklink2_src_stop releases the input it holds, if any, and forgets
\* it.
ReleaseInput(e) ==
  /\ elements[e].object # NULL_OBJECT
  /\ device_list' = gst_decklink2_release_input(device_list,
                                                elements[e].object)
  /\ elements' = [elements EXCEPT ![e] =
                    [object |-> NULL_OBJECT, last |-> "stopped"]]

\* gst_decklink2_sink_start
AcquireOutput(e, device_number, persistent_id) ==
  LET r == gst_decklink2_acquire_output(device_list, device_number,
                                        persistent_id)
  IN /\ elements[e].object = NULL_OBJECT
     /\ device_list' = r.list
     /\ elements' = [elements EXCEPT ![e] =
                       [object |-> r.ret,
                        last |-> IF r.ret = NULL_OBJECT
                                   THEN "start_failed" ELSE "started"]]

\* gst_decklink2_sink_stop
ReleaseOutput(e) ==
  /\ elements[e].object # NULL_OBJECT
  /\ device_list' = gst_decklink2_release_output(device_list,
                                                 elements[e].object)
  /\ elements' = [elements EXCEPT ![e] =
                    [object |-> NULL_OBJECT, last |-> "stopped"]]

Init == OutInit /\ InInit /\ ElemInit

(***************************************************************************)
(* The capture side while the time mapping settles: every callback brings  *)
(* a frame with signal, and the regression over the window may return any  *)
(* line through a point near the current mapping's value.                  *)
(***************************************************************************)
Latencies == {0, 1000000}

\* Slopes num/den the regression returns.
Slopes == { [num |-> 1, den |-> 1], [num |-> 1, den |-> 40] }

\* Distances, in units of the jump budget, of the regression's value from
\* the current mapping's value at the latest stream time.
Offsets == {-30, -3, 0, 3}

\* The lines the regression may return for the window ending at stream
\* time t: anchored at the window's oldest stream time.
RegressionResults(s, k) ==
  LET t == StreamTime(s.selected_mode, k)
      xbase == StreamTime(s.selected_mode, hw.epoch + 1)
      expected == ApplyMapping(s.current_time_mapping, t)
  IN {NoRegression} \cup
     { [ok |-> TRUE, xbase |-> xbase, num |-> sl.num, den |-> sl.den,
        b |-> Max(0, expected + off * MaxDiff(s.selected_mode)
                        - gst_util_uint64_scale(t - xbase, sl.num, sl.den))]
       : sl \in Slopes, off \in Offsets }

RegressionChoices ==
  IF Regresses(input)
    THEN RegressionResults(input, hw.frames + 1) ELSE {NoRegression}

MapNext ==
  /\ hw.calls < MaxMapCalls
  /\ UNCHANGED <<twin, elemvars, threads>>
  /\ \E latency \in Latencies, reg \in RegressionChoices :
        FrameArrived(TRUE, FALSE, "none", latency, reg, FALSE, 0, 0)

SpecMap == Init /\ [][MapNext]_vars

(***************************************************************************)
(* The same capture with a device that may fail to report the stream time  *)
(* of any frame.                                                           *)
(***************************************************************************)
MaxUnread == 2          \* frames whose stream time the device fails to report

FallbackFaults == IF hw.unread < MaxUnread THEN {"none", "stream_time"} ELSE {"none"}

FallbackNext ==
  /\ hw.calls < MaxMapCalls
  /\ UNCHANGED <<twin, elemvars, threads>>
  /\ \E latency \in Latencies, reg \in RegressionChoices,
        fault \in FallbackFaults :
        FrameArrived(TRUE, FALSE, fault, latency, reg, FALSE, 0, 0)

SpecFallback == Init /\ [][FallbackNext]_vars

(***************************************************************************)
(* The capture side from the reset to the first fill of the window: the    *)
(* regression has a line to offer at every frame, whether or not the       *)
(* update asks for it.                                                     *)
(***************************************************************************)
MaxSeedCalls == 66      \* callbacks delivered while the seeding is explored

SeedNext ==
  /\ hw.calls < MaxSeedCalls
  /\ UNCHANGED <<twin, elemvars, threads>>
  /\ \E latency \in Latencies, reg \in RegressionResults(input, hw.frames + 1) :
        FrameArrived(TRUE, FALSE, "none", latency, reg, FALSE, 0, 0)

SpecSeed == Init /\ [][SeedNext]_vars

(***************************************************************************)
(* The window's counters over a long capture: the update applied to pair   *)
(* after pair while the regression finds no line, and the reset applied at *)
(* any time.  The counters do not depend on the times, so every frame      *)
(* carries stream time 0.                                                  *)
(***************************************************************************)
SkipCaptureTimes == {0, 1000000}

SkipUpdate(capture_time) ==
  /\ input' = gst_decklink2_input_update_time_mapping(input, capture_time, 0,
                                                      NoRegression)
  /\ UNCHANGED <<adapter, queue, hw, arrival, consumer>>
  /\ UNCHANGED <<outvars, twin, elemvars, threads>>

SkipReset ==
  /\ input' = gst_decklink2_input_reset_time_mapping(input)
  /\ UNCHANGED <<adapter, queue, hw, arrival, consumer>>
  /\ UNCHANGED <<outvars, twin, elemvars, threads>>

SkipNext ==
  \/ \E capture_time \in SkipCaptureTimes : SkipUpdate(capture_time)
  \/ SkipReset

SpecSkip == Init /\ [][SkipNext]_vars

(***************************************************************************)
(* The capture side while audio arrives: frames with and without signal,   *)
(* packets with and without a frame, declared offsets around the expected  *)
(* one, and failing device calls.                                          *)
(***************************************************************************)
PacketOffsets ==
  IF input.next_audio_offset = INVALID_AUDIO_OFFSET
    THEN {0, MaxOffsetSkew}
    ELSE { d \in (input.next_audio_offset - MaxOffsetSkew)..
                 (input.next_audio_offset + MaxOffsetSkew) : d >= 0 }

AudioNext ==
  /\ hw.calls < MaxAudioCalls
  /\ UNCHANGED <<twin, elemvars, threads>>
  /\ \E frame \in BOOLEAN, packet \in BOOLEAN :
       /\ frame \/ packet
       /\ \E no_source \in (IF frame THEN BOOLEAN ELSE {FALSE}),
             fault \in { f \in InputFaults :
                           /\ f \in {"frame_bytes", "stream_time"} => frame
                           /\ f \in {"packet_time", "packet_bytes"} => packet },
             d \in (IF packet THEN PacketOffsets ELSE {0}),
             n \in (IF packet THEN 0..MaxPacketSamples ELSE {0}) :
            FrameArrived(frame, no_source, fault, 0, NoRegression, packet, d, n)

SpecAudio == Init /\ [][AudioNext]_vars

(***************************************************************************)
(* The submit call by call: the drain loop of schedule_video_internal      *)
(* makes one ScheduleAudioSamples call per iteration and the device        *)
(* decides, call by call, whether it succeeds and how many of the offered  *)
(* samples it reports written.  The scheduling lock is held from the       *)
(* Append to the return, so the completion callback waits meanwhile.       *)
(***************************************************************************)
MaxDrainCalls == 3      \* ScheduleAudioSamples calls are counted modulo this

HeadFaults == IF output.audio_info.valid THEN {"none", "video", "begin"}
              ELSE {"none", "video"}
TailFaults == IF output.audio_info.valid THEN {"none", "end", "start"}
              ELSE {"none", "start"}

\* The state a step of the submit leaves; next is where the thread goes on
\* when the step did not fail.
SubmitStepReturns(r, next) ==
  /\ SetWorld(r.w)
  /\ ret' = IF r.hr = S_OK /\ next = "drain" THEN ret ELSE r.hr
  /\ pc' = IF r.hr = S_OK THEN next ELSE "failed"
  /\ arg' = IF r.hr = S_OK /\ next = "drain" THEN arg ELSE NoArg

\* schedule_stream under the scheduling lock, up to the drain loop.
SubmitVideo(fault) ==
  /\ pc = "schedule"
  /\ SubmitStepReturns(
        schedule_video_head(
          [CurWorld EXCEPT !.audio_buf = AudioBufAppend(@, arg.audio_buf_size)],
          UploadedFrame(output.last_frame), fault),
        "drain")
  /\ dev_calls' = [dev_calls EXCEPT
        !["ScheduleVideoFrame"] = @ + 1,
        !["BeginAudioPreroll"] =
            IF fault # "video" /\ ~output.prerolled /\ NeedsBeginPreroll(output)
            THEN @ + 1 ELSE @]
  /\ UNCHANGED pending
  /\ UNCHANGED <<invars, twin, elemvars, threads>>

\* while (audio_buf && num_samples > 0)
DrainPending(ab) ==
  AudioBufGetSamples(ab).data /\ AudioBufGetSamples(ab).num_samples > 0

\* One iteration of the drain loop: the samples in the buffer are offered,
\* the call fails or reports written samples as written, and those are
\* flushed.
DrainIteration(w, ok, written) ==
  [w |-> [w EXCEPT
       !.audio_buf = IF ok THEN AudioBufFlush(@, written) ELSE @,
       !.device.audio_samples = IF ok THEN @ + written ELSE @,
       !.log = << LogEntry("ScheduleAudioSamples", ok,
                           AudioBufGetSamples(w.audio_buf).sample_pos,
                           AudioBufGetSamples(w.audio_buf).num_samples,
                           IF ok THEN written ELSE 0, NULL) >>],
   hr |-> IF ok THEN S_OK ELSE E_FAIL]

DrainCall(ok, written) ==
  /\ pc = "drain"
  /\ DrainPending(audio_buf)
  /\ SubmitStepReturns(DrainIteration(CurWorld, ok, written), "drain")
  /\ dev_calls' = [dev_calls EXCEPT
        !["ScheduleAudioSamples"] = (@ + 1) % MaxDrainCalls]
  /\ UNCHANGED pending
  /\ UNCHANGED <<invars, twin, elemvars, threads>>

\* The drain loop finds nothing pending: the rest of the submit.
DrainDone(fault) ==
  /\ pc = "drain"
  /\ ~DrainPending(audio_buf)
  /\ SubmitStepReturns(
        schedule_video_drained([w |-> CurWorld, hr |-> S_OK], fault), "idle")
  /\ dev_calls' = [dev_calls EXCEPT
        !["EndAudioPreroll"] =
            IF /\ ~output.prerolled /\ output.audio_info.valid
               /\ PrerollDone(output.n_prerolled + 1, output.n_preroll_frames)
            THEN @ + 1 ELSE @,
        !["StartScheduledPlayback"] =
            IF /\ ~output.prerolled /\ fault # "end"
               /\ PrerollDone(output.n_prerolled + 1, output.n_preroll_frames)
            THEN @ + 1 ELSE @]
  /\ UNCHANGED pending
  /\ UNCHANGED <<invars, twin, elemvars, threads>>

\* The samples the device reports written in one call: none, half or all
\* of those offered.
WrittenChoices ==
  {0, (AudioBufGetSamples(audio_buf).num_samples + 1) \div 2,
   AudioBufGetSamples(audio_buf).num_samples}

\* The steps of the pipeline thread inside the scheduling lock.
SubmitLocked ==
  \/ \E f \in HeadFaults : SubmitVideo(f)
  \/ \E ok \in BOOLEAN, written \in WrittenChoices : DrainCall(ok, written)
  \/ \E f \in TailFaults : DrainDone(f)

DrainNext ==
  \/ StopInternalLocked
  \/ Stop
  \/ \E f \in ConfigFaults, m \in Modes, ch \in Channels :
        \E p \in PrerollChoices(f), mn \in MinChoices(f), mx \in MaxChoices(f) :
           Configure(p, mn, mx, m, ch, f)
  \/ \E size \in AudioSizes, qok \in BOOLEAN :
        SubmitCheck(size, qok) /\ UNCHANGED threads
  \/ SubmitLocked
  \/ \E res \in Results : DeviceComplete(res) /\ UNCHANGED threads
  \/ /\ pc \notin {"drain"}
     /\ UNCHANGED threads
     /\ \E qok \in BOOLEAN : \E its \in BurstChoices(qok) :
           ScheduledFrameCompleted(qok, its)

SpecDrain == Init /\ [][DrainNext]_vars

\* The pipeline thread is running: a step it can take it takes.
SpecDrainFair == SpecDrain /\ WF_vars(SubmitLocked)

(***************************************************************************)
(* The output called from three threads: the pipeline thread submits, a    *)
(* control thread stops and configures, the driver's thread delivers the   *)
(* completions.  extern_lock is held by the control thread from the entry  *)
(* of stop or configure to its return and by the pipeline thread during    *)
(* the overrun test; schedule_lock is held during the callback, the        *)
(* scheduling part of a submit, the overrun test on a running device and   *)
(* the first statement of stop_internal.                                   *)
(***************************************************************************)
extern_lock == "extern_lock"
schedule_lock == "schedule_lock"

MaxCtlCalls == 2        \* stop and configure calls of the control thread

\* The latest step was taken holding the locks held.
StepBy(held, ctl, stale, calls) ==
  threads' = [threads EXCEPT !.ctl = ctl, !.held = held, !.stale = stale,
                             !.calls = calls]

\* gst_decklink2_output_stop or gst_decklink2_output_configure on a
\* configured output, on the control thread: extern_lock is taken and
\* stop_internal clears last_frame under schedule_lock.
CtlStopLocked ==
  /\ threads.ctl = "out"
  /\ threads.calls < MaxCtlCalls
  /\ output.configured
  /\ output' = [output EXCEPT !.last_frame = NULL, !.last_frame_refs = 0]
  /\ dev_log' = << >>
  /\ StepBy({extern_lock, schedule_lock}, "stopping", pc = "schedule",
            threads.calls + 1)
  /\ UNCHANGED <<audio_buf, device, dev_calls, pending, pc, arg, ret>>
  /\ UNCHANGED <<invars, twin, elemvars>>

\* gst_decklink2_output_stop on the control thread: the rest of
\* stop_internal, after lk.unlock ().
CtlStop ==
  /\ threads.ctl = "stopping"
  /\ SetWorld(StopInternalRest(CurWorld))
  /\ pending' = << >>
  /\ StepBy({extern_lock}, "out", threads.stale, threads.calls)
  /\ UNCHANGED <<dev_calls, pc, arg, ret>>
  /\ UNCHANGED <<invars, twin, elemvars>>

\* gst_decklink2_output_configure on the control thread: the rest of the
\* stop_internal it runs on a configured output, then its body.
CtlConfigure(n_preroll_frames, min_buffered, max_buffered, mode, channels, fault) ==
  /\ \/ threads.ctl = "stopping"
     \/ threads.ctl = "out" /\ ~output.configured /\ threads.calls < MaxCtlCalls
  /\ SetWorld(ConfigureBody(
        IF output.configured THEN StopInternalRest(CurWorld) ELSE CurWorld,
        [n_preroll_frames |-> n_preroll_frames,
         min_buffered |-> min_buffered, max_buffered |-> max_buffered,
         display_mode |-> mode, audio_channels |-> channels],
        fault).w)
  /\ dev_calls' = NoCalls
  /\ pending' = << >>
  /\ StepBy({extern_lock}, "out", threads.stale,
            IF threads.ctl = "out" THEN threads.calls + 1 ELSE threads.calls)
  /\ UNCHANGED <<pc, arg, ret>>
  /\ UNCHANGED <<invars, twin, elemvars>>

\* gst_decklink2_output_schedule_stream on the pipeline thread, up to
\* lk.unlock (): it waits for extern_lock while the control thread is inside
\* stop or configure, and takes schedule_lock for the overrun test when the
\* device is running.
PipelineCheck(audio_buf_size, qok) ==
  /\ threads.ctl = "out"
  /\ SubmitCheck(audio_buf_size, qok)
  /\ StepBy(IF qok /\ IsRunning(device) THEN {extern_lock, schedule_lock}
            ELSE {extern_lock},
            threads.ctl, FALSE, threads.calls)

\* The rest of schedule_stream on the pipeline thread, under schedule_lock.
PipelineSchedule(fault, split) ==
  /\ SubmitSchedule(fault, split)
  /\ StepBy({schedule_lock}, threads.ctl, threads.stale, threads.calls)

\* The device queues a completion; the driver's thread delivers one.
DriverComplete(result) ==
  /\ DeviceComplete(result)
  /\ StepBy({}, threads.ctl, threads.stale, threads.calls)

DriverCallback(qok, its) ==
  /\ ScheduledFrameCompleted(qok, its)
  /\ StepBy({schedule_lock}, threads.ctl, threads.stale, threads.calls)

ThreadsNext ==
  \/ CtlStopLocked
  \/ CtlStop
  \/ \E f \in ConfigFaults, m \in Modes, ch \in Channels :
        \E p \in PrerollChoices(f), mn \in MinChoices(f), mx \in MaxChoices(f) :
           CtlConfigure(p, mn, mx, m, ch, f)
  \/ \E size \in AudioSizes, qok \in BOOLEAN : PipelineCheck(size, qok)
  \/ \E f \in SubmitFaults, split \in SplitChoices : PipelineSchedule(f, split)
  \/ \E res \in Results : DriverComplete(res)
  \/ \E qok \in BOOLEAN : \E its \in BurstChoices(qok) : DriverCallback(qok, its)

SpecThreads == Init /\ [][ThreadsNext]_vars

(***************************************************************************)
(* The recovery burst iteration by iteration.  The callback takes          *)
(* schedule_lock on entry and keeps it to its return; threads.owner is the *)
(* thread that holds it between two steps and threads.left the iterations  *)
(* the burst in progress has still to run.  The pipeline thread makes its  *)
(* calls one after the other, as the sink does, while the driver's thread  *)
(* runs at any time: a stop or a submit that needs schedule_lock waits     *)
(* until the callback has returned.  Completions that arrive meanwhile     *)
(* wait for the driver's thread.                                           *)
(***************************************************************************)
\* The callback up to the first iteration of its loop.
CompletedBegin(qok) ==
  /\ threads.owner = "none"
  /\ pending # << >>
  /\ LET h == IF Head(pending) \in {"Completed", "DisplayedLate", "Dropped"}
              THEN on_completed_head(CurWorld, Head(pending), qok)
              ELSE [w |-> CurWorld, burst |-> FALSE]
     IN /\ SetWorld([h.w EXCEPT !.output.duplicating = h.burst])
        /\ threads' = [threads EXCEPT
              !.held = {schedule_lock},
              !.owner = IF h.burst THEN "driver" ELSE "none",
              !.left = IF h.burst THEN h.w.output.gap_frames ELSE 0]
  /\ pending' = Tail(pending)
  /\ UNCHANGED <<dev_calls, pc, arg, ret>>
  /\ UNCHANGED <<invars, twin, elemvars>>

\* The state one iteration leaves.
BurstStepReturns(x) ==
  /\ SetWorld(x.w)
  /\ dev_calls' = [m \in Methods |-> dev_calls[m] + CountCalls(x.w.log, m)]

\* One iteration of the callback's loop.
BurstStep(it) ==
  /\ threads.owner = "driver"
  /\ threads.left > 0
  /\ BurstStepReturns(BurstIteration([w |-> CurWorld, pend |-> << >>], it))
  /\ threads' = [threads EXCEPT !.held = {schedule_lock}, !.left = @ - 1]
  /\ UNCHANGED <<pending, pc, arg, ret>>
  /\ UNCHANGED <<invars, twin, elemvars>>

\* The loop has ended: duplicating = FALSE and the callback returns.
BurstEnd ==
  /\ threads.owner = "driver"
  /\ threads.left = 0
  /\ output' = [output EXCEPT !.duplicating = FALSE]
  /\ threads' = [threads EXCEPT !.held = {schedule_lock}, !.owner = "none"]
  /\ UNCHANGED <<audio_buf, device, dev_log, dev_calls, pending, pc, arg, ret>>
  /\ UNCHANGED <<invars, twin, elemvars>>

\* The first statement of stop_internal as it would be without the lock.
StopClearLastFrame_Unlocked ==
  StopInternalLocked

\* The first statement of stop_internal: last_frame is cleared once
\* schedule_lock has been obtained.
StopClearLastFrame ==
  /\ threads.owner = "none"
  /\ StopInternalLocked

\* The scheduling part of a submit, once schedule_lock has been obtained.
\* The overrun test of a submit: on a running device it is made under
\* schedule_lock, so it waits while the callback holds the lock.
SubmitCheckLocked(audio_buf_size, qok) ==
  /\ (qok /\ IsRunning(device)) => threads.owner = "none"
  /\ SubmitCheck(audio_buf_size, qok)
  /\ UNCHANGED threads

SubmitScheduleLocked(fault, split) ==
  /\ threads.owner = "none"
  /\ SubmitSchedule(fault, split)
  /\ UNCHANGED threads

BurstConfigure ==
  \E f \in {"none", "video", "callback"}, m \in Modes :
     \E mx \in MaxChoices(f) : Configure(1, 0, mx, m, 0, f)

BurstNext ==
  \/ StopClearLastFrame
  \/ Stop
  \/ BurstConfigure
  \/ \E size \in AudioSizes, qok \in BOOLEAN : SubmitCheckLocked(size, qok)
  \/ \E f \in {"none", "video"} : SubmitScheduleLocked(f, FALSE)
  \/ \E res \in Results : DeviceComplete(res) /\ UNCHANGED threads
  \/ \E qok \in BOOLEAN : CompletedBegin(qok)
  \/ \E it \in ItParams(FALSE, FALSE) : BurstStep(it)
  \/ BurstEnd

SpecBurst == Init /\ [][BurstNext]_vars

(***************************************************************************)
(* Two capture sessions side by side.  Both are given the same audio       *)
(* packets; the second one's frames are captured with a latency of its own *)
(* and its audio-only callbacks need not be the first one's.               *)
(***************************************************************************)
MaxTwinCalls == 3       \* callbacks delivered to each of the two sessions

TwinFaults == {"none", "packet_bytes"}

\* The state the second session's callback leaves.
TwinReturns(r, k, same) ==
  twin' = [s |-> r.s, adapter |-> r.adapter, arrival |-> r.arrival,
           frames |-> k, aligned |-> twin.aligned /\ same]

\* The second session's callback: the same packet, its own frame and time.
TwinArrived(frame, no_source, fault, latency, packet, d, n, same) ==
  LET k == IF frame THEN twin.frames + 1 ELSE twin.frames
      t == IF frame THEN StreamTime(twin.s.selected_mode, k) ELSE 0
  IN TwinReturns(
       on_frame_arrived(twin.s, twin.adapter, << >>,
         [frame |-> frame, k |-> k, no_source |-> no_source, fault |-> fault,
          stream_time |-> t, capture_time |-> t + latency,
          reg |-> NoRegression, packet |-> packet, d |-> d, n |-> n]),
       k, same)

TwinNext ==
  /\ hw.calls < MaxTwinCalls
  /\ UNCHANGED <<threads, elemvars>>
  /\ \E frame \in BOOLEAN, packet \in BOOLEAN :
       /\ frame \/ packet
       /\ \E no_source \in (IF frame THEN BOOLEAN ELSE {FALSE}),
             fault \in (IF packet THEN TwinFaults ELSE {"none"}),
             d \in (IF packet THEN PacketOffsets ELSE {0}),
             n \in (IF packet THEN 0..MaxPacketSamples ELSE {0}),
             frame2 \in (IF packet THEN BOOLEAN ELSE {frame}),
             latency \in Latencies :
            /\ FrameArrived(frame, no_source, fault, 0, NoRegression,
                            packet, d, n)
            /\ TwinArrived(frame2, frame2 /\ no_source, fault, latency,
                           packet, d, n, frame2 = frame)

SpecTwin == Init /\ [][TwinNext]_vars

(***************************************************************************)
(* The capture queue between the driver's callback and the streaming       *)
(* thread, with the calls the source element makes from other threads:     *)
(* unlock, unlock_stop and stop.                                           *)
(***************************************************************************)
MaxQueueCalls == 4      \* callbacks delivered while the queue is explored
MaxBufferSize == 2      \* largest buffer-size the queue is explored with

\* The thread has taken the lock and is past the wait loop, or back in it.
\* r is what get_data returns when it does not wait.
GetDataReturns(c, wait, r) ==
  /\ consumer' = IF wait THEN [c EXCEPT !.pc = "waiting"]
                  ELSE [c EXCEPT !.pc = "out", !.ret = r.ret, !.buf = r.buf,
                                 !.last = IF r.ret = GST_FLOW_OK
                                            THEN r.buf.frame ELSE @]
  /\ queue' = IF wait THEN queue ELSE r.queue

\* The streaming thread calls gst_decklink2_input_get_data: it takes the
\* lock, clears its out arguments and evaluates the loop condition.
GetData ==
  /\ consumer.pc = "out"
  /\ GetDataReturns([consumer EXCEPT !.ret = "none", !.buf = NoBuffer,
                                     !.wake = "none", !.unit = 0],
                    MustWait(input, queue), get_data(input, queue))
  /\ UNCHANGED <<input, adapter, hw, arrival>>
  /\ UNCHANGED <<outvars, twin, elemvars, threads>>

\* cond.wait returns: the thread holds the lock again and evaluates the
\* loop condition once more.
GetDataWake ==
  /\ consumer.pc = "woken"
  /\ GetDataReturns(consumer, MustWait(input, queue), get_data(input, queue))
  /\ UNCHANGED <<input, adapter, hw, arrival>>
  /\ UNCHANGED <<outvars, twin, elemvars, threads>>

\* std::condition_variable::wait may return without a notification.
SpuriousWake ==
  /\ consumer.pc = "waiting"
  /\ consumer' = [consumer EXCEPT !.pc = "woken", !.wake = "spurious"]
  /\ UNCHANGED <<input, adapter, queue, hw, arrival>>
  /\ UNCHANGED <<outvars, twin, elemvars, threads>>

\* GstBaseSrc calls unlock_stop only after create has returned to it: the
\* streaming thread is not inside get_data.
StreamingThreadOutside == consumer.pc = "out"

\* gst_decklink2_input_set_flushing, called by the element's unlock (TRUE)
\* and unlock_stop (FALSE).
SetFlushing(flush) ==
  /\ flush \/ StreamingThreadOutside
  /\ input' = [input EXCEPT !.flushing = flush]
  /\ consumer' = notify_all(consumer, "flush", 0)
  /\ UNCHANGED <<adapter, queue, hw, arrival>>
  /\ UNCHANGED <<outvars, twin, elemvars, threads>>

\* The state gst_decklink2_input_stop leaves.  r is what stop_unlocked
\* returned.
StopReturns(r) ==
  /\ input' = [r.s EXCEPT !.client = FALSE]
  /\ queue' = r.queue
  /\ consumer' = notify_all(consumer, "stop", 0)

\* gst_decklink2_input_stop
InputStop ==
  /\ input.started
  /\ StopReturns(stop_unlocked(input, queue))
  /\ hw' = [hw EXCEPT !.stopped = hw.frames]
  /\ UNCHANGED <<adapter, arrival>>
  /\ UNCHANGED <<outvars, twin, elemvars, threads>>

\* The state gst_decklink2_input_start leaves when it fails (ok = FALSE:
\* stop_unlocked once more, client = NULL) and when it succeeds.
StartReturns(r, ok) ==
  /\ input' = IF ok
                THEN [InputNew(input.selected_mode) EXCEPT
                         !.buffer_size = input.buffer_size,
                         !.flushing = input.flushing,
                         !.next_time_mapping_pending =
                            input.next_time_mapping_pending]
                ELSE [r.s EXCEPT !.client = FALSE]
  /\ queue' = r.queue

\* gst_decklink2_input_start, which the streaming thread calls from create
\* before get_data when the element is not running.
InputStart(ok) ==
  /\ consumer.pc = "out"
  /\ ~input.started
  /\ StartReturns(stop_unlocked(input, queue), ok)
  /\ hw' = [hw EXCEPT !.stopped = hw.frames]
  /\ UNCHANGED <<adapter, arrival, consumer>>
  /\ UNCHANGED <<outvars, twin, elemvars, threads>>

\* The input after gst_decklink2_input_start with the element's buffer-size.
QueueInit ==
  /\ OutInit
  /\ input \in { [InputNew(m) EXCEPT !.buffer_size = b] :
                    m \in InputModes, b \in 1..MaxBufferSize }
  /\ adapter = << >>
  /\ queue = << >>
  /\ hw = HwNew
  /\ arrival = NoArrival
  /\ consumer = ConsumerNew
  /\ twin = TwinNew
  /\ ElemInit

QueueNext ==
  \/ /\ hw.calls < MaxQueueCalls
     /\ UNCHANGED <<twin, elemvars, threads>>
     /\ \E no_source \in BOOLEAN :
          FrameArrived(TRUE, no_source, "none", 0, NoRegression, FALSE, 0, 0)
  \/ GetData
  \/ GetDataWake
  \/ SpuriousWake
  \/ \E flush \in BOOLEAN : SetFlushing(flush)
  \/ InputStop
  \/ \E ok \in BOOLEAN : InputStart(ok)

SpecQueue == QueueInit /\ [][QueueNext]_vars

\* A notified thread takes the lock again: no holder keeps it for ever.
SpecQueueFair == SpecQueue /\ WF_vars(GetDataWake)

Spec == Init /\ [][OutNext]_vars

(***************************************************************************)
(* The capture side over its life: callbacks with and without a frame,     *)
(* with and without signal, a change of the detected format, and the       *)
(* element stopping and starting the input.  The device makes its          *)
(* callbacks between a start and the stop that follows it.                 *)
(***************************************************************************)
MaxLifeCalls == 4       \* callbacks delivered while the life cycle is explored

\* The display modes format detection may report.
DetectedModes == InputModes \cup Modes

\* gst_decklink2_input_on_format_changed for a format the plugin knows, on
\* the fields the model keeps.
gst_decklink2_input_on_format_changed(s, mode) ==
  [gst_decklink2_input_reset_time_mapping(s) EXCEPT
     !.selected_mode = mode,
     !.audio_offset = INVALID_AUDIO_OFFSET,
     !.next_audio_offset = INVALID_AUDIO_OFFSET,
     !.was_restarted = TRUE]

\* IDeckLinkInputCallback::VideoInputFormatChanged: the streams are paused,
\* flushed and started again and the pending audio is dropped.
FormatChanged(mode) ==
  /\ input.started
  /\ input' = gst_decklink2_input_on_format_changed(input, mode)
  /\ adapter' = << >>
  /\ hw' = [hw EXCEPT !.calls = @ + 1, !.epoch = hw.frames]
  /\ UNCHANGED <<queue, arrival, consumer>>
  /\ UNCHANGED <<outvars, twin, elemvars, threads>>

\* IDeckLinkInputCallback::VideoInputFrameArrived while the input is started.
LifeArrived ==
  /\ input.started
  /\ UNCHANGED <<twin, elemvars, threads>>
  /\ \E frame \in BOOLEAN, packet \in BOOLEAN :
       /\ frame \/ packet
       /\ \E no_source \in (IF frame THEN BOOLEAN ELSE {FALSE}),
             d \in (IF packet THEN PacketOffsets ELSE {0}),
             n \in (IF packet THEN 1..MaxPacketSamples ELSE {0}) :
            FrameArrived(frame, no_source, "none", 0, NoRegression, packet, d, n)

LifeNext ==
  \/ hw.calls < MaxLifeCalls /\ LifeArrived
  \/ hw.calls < MaxLifeCalls /\ \E m \in DetectedModes : FormatChanged(m)
  \/ InputStop
  \/ \E ok \in BOOLEAN : InputStart(ok)

SpecLife == Init /\ [][LifeNext]_vars

(***************************************************************************)
(* The capture callbacks step by step, next to a thread that stops and     *)
(* starts the input.  The device begins a callback only while the streams  *)
(* run; a callback that has begun goes on at its own pace: StopStreams is  *)
(* called with priv->lock held and from inside the callback itself, so it  *)
(* does not wait for the callbacks in progress.                            *)
(***************************************************************************)
MaxRaceCalls == 3       \* callbacks begun while stop and start are explored

CapStep(c) ==
  /\ capture' = c
  /\ UNCHANGED <<outvars, twin, ownvars, threads, sink>>

\* VideoInputFrameArrived is entered.
CbEnter(frame, no_source, packet, d, n) ==
  LET k == IF frame THEN hw.frames + 1 ELSE hw.frames
      t == IF frame THEN StreamTime(input.selected_mode, k) ELSE 0
  IN /\ capture.cb = "idle"
     /\ input.started
     /\ capture.entered < MaxRaceCalls
     /\ CapStep([capture EXCEPT !.cb = "prologue", !.entered = @ + 1,
                   !.in = [frame |-> frame, k |-> k, no_source |-> no_source,
                           fault |-> "none", stream_time |-> t,
                           capture_time |-> t, reg |-> NoRegression,
                           packet |-> packet, d |-> d, n |-> n]])
     /\ UNCHANGED invars

\* The flags are tested: the callback goes on to the unlocked reset or to
\* priv->lock.
CbDecide ==
  LET p == on_frame_prologue(input, capture.in)
  IN /\ capture.cb = "prologue"
     /\ input' = p.s
     /\ CapStep([capture EXCEPT !.cb = IF p.restart THEN "restore" ELSE "wait"])
     /\ UNCHANGED <<adapter, queue, hw, arrival, consumer>>

\* The unlocked reset is done and the callback returns.
CbRestore ==
  /\ capture.cb = "restore"
  /\ ArrivalReturns(on_frame_restore(input, queue, capture.in), capture.in.k)
  /\ CapStep([capture EXCEPT !.cb = "idle"])

\* std::unique_lock lk (priv->lock)
CbLock ==
  /\ capture.cb = "wait"
  /\ capture.lock = "none"
  /\ CapStep([capture EXCEPT !.cb = "locked", !.lock = "cb"])
  /\ UNCHANGED invars

\* The frame is processed and the lock released.
CbLocked ==
  /\ capture.cb = "locked"
  /\ ArrivalReturns(on_frame_locked(input, adapter, queue, capture.in), capture.in.k)
  /\ CapStep([capture EXCEPT !.cb = "idle", !.lock = "none"])

\* VideoInputFormatChanged is entered; it takes no lock.
CbFormatEnter ==
  /\ capture.cb = "idle"
  /\ input.started
  /\ capture.entered < MaxRaceCalls
  /\ CapStep([capture EXCEPT !.cb = "format", !.entered = @ + 1])
  /\ UNCHANGED invars

CbFormat(mode) ==
  /\ capture.cb = "format"
  /\ input' = gst_decklink2_input_on_format_changed(input, mode)
  /\ adapter' = << >>
  /\ hw' = [hw EXCEPT !.calls = @ + 1, !.epoch = hw.frames]
  /\ CapStep([capture EXCEPT !.cb = "idle"])
  /\ UNCHANGED <<queue, arrival, consumer>>

\* gst_decklink2_input_stop, whole, under priv->lock.
RaceStop ==
  /\ capture.pl = "out"
  /\ capture.lock = "none"
  /\ InputStop

\* gst_decklink2_input_start takes priv->lock and calls stop_unlocked.
RaceStartLock ==
  /\ capture.pl = "out"
  /\ capture.lock = "none"
  /\ ~input.started
  /\ input' = stop_unlocked(input, queue).s
  /\ queue' = stop_unlocked(input, queue).queue
  /\ hw' = [hw EXCEPT !.stopped = hw.frames]
  /\ CapStep([capture EXCEPT !.pl = "start", !.lock = "pl"])
  /\ UNCHANGED <<adapter, arrival, consumer>>

\* The rest of gst_decklink2_input_start: the mapping and the offsets are
\* reset, the streams started and the lock released.
RaceStartRest(ok) ==
  /\ capture.pl = "start"
  /\ StartReturns(stop_unlocked(input, queue), ok)
  /\ CapStep([capture EXCEPT !.pl = "out", !.lock = "none"])
  /\ UNCHANGED <<adapter, hw, arrival, consumer>>

RaceNext ==
  \/ \E frame \in BOOLEAN, packet \in BOOLEAN :
       /\ frame \/ packet
       /\ \E no_source \in (IF frame THEN BOOLEAN ELSE {FALSE}),
             d \in (IF packet THEN PacketOffsets ELSE {0}),
             n \in (IF packet THEN 1..MaxPacketSamples ELSE {0}) :
            CbEnter(frame, no_source, packet, d, n)
  \/ CbDecide
  \/ CbRestore
  \/ CbLock
  \/ CbLocked
  \/ CbFormatEnter
  \/ \E m \in DetectedModes : CbFormat(m)
  \/ RaceStop
  \/ RaceStartLock
  \/ \E ok \in BOOLEAN : RaceStartRest(ok)

SpecRace == Init /\ [][RaceNext]_vars

(***************************************************************************)
(* The sink element driving the output: start, the threshold properties,   *)
(* set_caps, the restart action, render and stop on the pipeline's         *)
(* threads, the completion callback on the driver's.  basesink renders     *)
(* only between a set_caps that returned TRUE and a render that returned   *)
(* an error, and a failed assertion ends the process.                      *)
(***************************************************************************)
MaxRenders == 2         \* units rendered per configuration of the output
MaxProp == 1            \* largest threshold a property is set to
MaxSinkCalls == 5       \* calls the application and basesink make into the sink

\* gst_decklink2_output_stop_internal as one step.
gst_decklink2_output_stop_internal(w) ==
  StopInternalRest([w EXCEPT !.output.last_frame = NULL,
                             !.output.last_frame_refs = 0])

\* gst_decklink2_output_configure with the arguments the sink passes.
gst_decklink2_output_configure(w, s, fault) ==
  ConfigureBody(IF w.output.configured
                THEN gst_decklink2_output_stop_internal(w) ELSE w,
                [n_preroll_frames |-> s.n_preroll_frames,
                 min_buffered |-> s.min_buffered_frames,
                 max_buffered |-> s.max_buffered_frames,
                 display_mode |-> CHOOSE m \in Modes : TRUE,
                 audio_channels |-> s.audio_channels],
                fault)

\* GstDecklink2OutputStats as schedule_stream fills it: zeroed by render,
\* written only while scheduled playback is running.
OutputStats(w) ==
  IF IsRunning(w.device)
  THEN [drop_count |-> w.output.drop_count,
        late_count |-> w.output.late_count,
        buffered_video_time |->
           gst_util_uint64_scale(NumBuffered(w.device)
                                   * w.output.selected_mode.fps_d,
                                 GST_SECOND, w.output.selected_mode.fps_n),
        buffered_audio_time |->
           IF w.output.audio_info.valid
           THEN gst_util_uint64_scale(w.device.audio_samples, GST_SECOND,
                                      w.output.audio_info.rate)
           ELSE 0]
  ELSE [drop_count |-> 0, late_count |-> 0, buffered_video_time |-> 0,
        buffered_audio_time |-> 0]

\* gst_decklink2_output_schedule_stream on a configured output.
gst_decklink2_output_schedule_stream(w, audio_buf_size, qok, fault, split) ==
  IF ~qok THEN [w |-> w, hr |-> E_FAIL]
  ELSE IF IsRunning(w.device) /\ NumBuffered(w.device) > w.output.max_buffered
  THEN [w |-> [w EXCEPT !.output.overrun_count = @ + 1,
                        !.output.dropped_sample_count =
                           @ + DroppedSamples(w.output, audio_buf_size)],
        hr |-> S_OK]
  ELSE schedule_video_internal(
          [w EXCEPT !.audio_buf = AudioBufAppend(@, audio_buf_size)],
          UploadedFrame(w.output.last_frame), fault, split)

\* gst_decklink2_sink_start with the object acquire_output returned.
gst_decklink2_sink_start(s, object) ==
  IF object = NULL_OBJECT
  THEN [s EXCEPT !.output = NULL_OBJECT, !.last = "start_failed"]
  ELSE LET invalid == \/ s.n_preroll_frames < s.min_buffered_frames
                      \/ s.n_preroll_frames > s.max_buffered_frames
                      \/ s.max_buffered_frames < s.min_buffered_frames
           s1 == IF invalid
                 THEN [s EXCEPT
                         !.n_preroll_frames = DEFAULT_N_PREROLL_FRAMES,
                         !.min_buffered_frames = DEFAULT_MIN_BUFFERED_FRAMES,
                         !.max_buffered_frames = DEFAULT_MAX_BUFFERED_FRAMES]
                 ELSE s
       IN [s1 EXCEPT !.output = object, !.audio_channels = 0,
                     !.configured = FALSE, !.negotiated = FALSE,
                     !.flow = "ok", !.last = "started",
                     !.at_start = Thresholds(s1), !.passed = NoThresholds]

\* gst_decklink2_sink_set_caps.  r.flushed tells that the output was stopped
\* or configured.
gst_decklink2_sink_set_caps(w, s, channels, fault, pool_ok) ==
  IF s.configured /\ s.audio_channels = channels
  THEN [w |-> w, flushed |-> FALSE,
        s |-> [s EXCEPT !.negotiated = TRUE, !.last = "caps_kept"]]
  ELSE LET w1 == IF s.configured
                 THEN gst_decklink2_output_stop_internal(w) ELSE w
           s1 == [s EXCEPT !.configured = FALSE, !.audio_channels = channels,
                           !.passed = Thresholds(s)]
           c == gst_decklink2_output_configure(w1, s1, fault)
       IN IF c.hr # S_OK
          THEN [w |-> c.w, flushed |-> TRUE,
                s |-> [s1 EXCEPT !.negotiated = FALSE,
                                 !.last = "caps_refused"]]
          ELSE IF ~pool_ok
          THEN [w |-> c.w, flushed |-> TRUE,
                s |-> [s1 EXCEPT !.negotiated = FALSE,
                                 !.last = "caps_no_pool"]]
          ELSE [w |-> c.w, flushed |-> TRUE,
                s |-> [s1 EXCEPT !.configured = TRUE,
                                 !.schedule_restart = FALSE,
                                 !.negotiated = TRUE,
                                 !.last = "caps_set"]]

\* gst_decklink2_sink_render up to the schedule_stream call: the restart the
\* action scheduled.  r.done tells that render has returned.
render_scheduled_restart(w, s, fault) ==
  IF ~s.schedule_restart
  THEN [w |-> w, s |-> s, flushed |-> FALSE, done |-> FALSE]
  ELSE LET s1 == [s EXCEPT !.schedule_restart = FALSE,
                           !.passed = Thresholds(s)]
           c == gst_decklink2_output_configure(w, s1, fault)
       IN [w |-> c.w, flushed |-> TRUE, done |-> c.hr # S_OK,
           s |-> IF c.hr # S_OK
                 THEN [s1 EXCEPT !.flow = "ok", !.last = "restart_refused"]
                 ELSE s1]

\* The schedule_stream call of render, entered with the outcome a of the
\* part before it: g_assert (output->configured), then the submission.
\* r.restart is do_restart.
render_schedule(a, audio_buf_size, qok, fault, split) ==
  IF a.done
  THEN [w |-> a.w, flushed |-> a.flushed, done |-> TRUE, restart |-> FALSE,
        s |-> a.s]
  ELSE IF ~a.w.output.configured
  THEN [w |-> a.w, flushed |-> a.flushed, done |-> TRUE, restart |-> FALSE,
        s |-> [a.s EXCEPT !.asserted = TRUE, !.last = "aborted"]]
  ELSE LET stats == OutputStats(a.w)
           r == gst_decklink2_output_schedule_stream(
                   a.w, audio_buf_size, qok, fault, split)
           diff == IF stats.buffered_audio_time > stats.buffered_video_time
                   THEN stats.buffered_audio_time - stats.buffered_video_time
                   ELSE stats.buffered_video_time - stats.buffered_audio_time
           desync == /\ a.s.audio_channels > 0
                     /\ a.s.desync_threshold # 0
                     /\ diff >= a.s.desync_threshold
           counts == /\ a.s.auto_restart
                     /\ stats.drop_count + stats.late_count
                          > a.s.n_preroll_frames
       IN IF r.hr # S_OK
          THEN [w |-> r.w, flushed |-> a.flushed, done |-> TRUE,
                restart |-> FALSE,
                s |-> [a.s EXCEPT !.flow = "error", !.last = "render_failed"]]
          ELSE [w |-> r.w, flushed |-> a.flushed, done |-> FALSE,
                restart |-> desync \/ counts,
                s |-> [a.s EXCEPT !.flow = "ok", !.last = "rendered"]]

\* The rest of render, entered with the outcome b of the schedule_stream
\* call: the restart on desync or on the drop and late counts.  r.again
\* tells that this configure call was made.
render_auto_restart(b, fault) ==
  IF b.done \/ ~b.restart
  THEN [w |-> b.w, flushed |-> b.flushed, again |-> FALSE, s |-> b.s]
  ELSE LET s1 == [b.s EXCEPT !.passed = Thresholds(b.s)]
           c == gst_decklink2_output_configure(b.w, s1, fault)
       IN [w |-> c.w, flushed |-> TRUE, again |-> TRUE,
           s |-> IF c.hr # S_OK
                 THEN [s1 EXCEPT !.last = "auto_restart_refused"]
                 ELSE [s1 EXCEPT !.last = "auto_restarted"]]

\* The process has not aborted and the exploration goes on.
SinkRuns == ~sink.asserted /\ sink.calls < MaxSinkCalls

SinkUnchanged == UNCHANGED <<invars, twin, threads, elements, capture, pc, arg, ret>>

\* The state a handler of the sink leaves: s the element, w the output and
\* its device; flushed tells that the output was stopped or configured, and
\* again that it was configured after the handler's device calls.
SinkReturns(s, w, flushed, again) ==
  /\ sink' = [s EXCEPT !.calls = @ + 1]
  /\ SetWorld(w)
  /\ pending' = IF flushed THEN << >> ELSE pending
  /\ dev_calls' =
       IF again THEN NoCalls
       ELSE [m \in Methods |->
               (IF flushed THEN 0 ELSE dev_calls[m]) + CountCalls(w.log, m)]
  /\ SinkUnchanged

\* gst_decklink2_sink_start, called by basesink on an element that is not
\* started.
SinkStart(device_number, persistent_id) ==
  /\ SinkRuns
  /\ sink.output = NULL_OBJECT
  /\ LET r == gst_decklink2_acquire_output(device_list, device_number,
                                           persistent_id)
     IN /\ device_list' = r.list
        /\ sink' = [gst_decklink2_sink_start(sink, r.ret) EXCEPT !.calls = @ + 1]
  /\ UNCHANGED outvars
  /\ SinkUnchanged

\* gst_decklink2_sink_stop on a started element.
SinkStop ==
  /\ SinkRuns
  /\ sink.output # NULL_OBJECT
  /\ device_list' = gst_decklink2_release_output(device_list, sink.output)
  /\ SinkReturns([sink EXCEPT !.output = NULL_OBJECT,
                              !.schedule_restart = FALSE,
                              !.negotiated = FALSE, !.last = "stopped"],
                 gst_decklink2_output_stop_internal(CurWorld), TRUE, FALSE)

\* gst_decklink2_sink_set_property for the properties render and start
\* read: it stores the value in whatever state the element is.
SinkSetProperty(prop, value) ==
  /\ SinkRuns
  /\ sink[prop] # value
  /\ sink' = [sink EXCEPT ![prop] = value, !.calls = @ + 1]
  /\ UNCHANGED <<outvars, device_list>>
  /\ SinkUnchanged

\* gst_decklink2_sink_set_caps on a started element.
SinkSetCaps(channels, fault, pool_ok) ==
  /\ SinkRuns
  /\ sink.output # NULL_OBJECT
  /\ LET r == gst_decklink2_sink_set_caps(CurWorld, sink, channels, fault,
                                          pool_ok)
     IN SinkReturns(r.s, r.w, r.flushed, FALSE)
  /\ UNCHANGED device_list

\* gst_decklink2_sink_restart, the "restart" action signal.
SinkRestart ==
  /\ SinkRuns
  /\ ~sink.schedule_restart
  /\ sink' = [sink EXCEPT !.schedule_restart = TRUE, !.calls = @ + 1]
  /\ UNCHANGED <<outvars, device_list>>
  /\ SinkUnchanged

\* gst_decklink2_sink_render.  The faults are those of the configure the
\* scheduled restart runs, of the submission and of the configure the
\* automatic restart runs; each is drawn only when its call is made.
SinkRender(audio_buf_size, qok) ==
  /\ SinkRuns
  /\ sink.output # NULL_OBJECT
  /\ sink.negotiated
  /\ sink.flow = "ok"
  /\ audio_buf_size = 0 \/ sink.audio_channels > 0
  /\ output.n_frames + output.overrun_count < MaxRenders
  /\ \E f1 \in IF sink.schedule_restart THEN ConfigFaults ELSE {"none"} :
       LET a == render_scheduled_restart(CurWorld, sink, f1)
           submits == ~a.done /\ a.w.output.configured
       IN \E f2 \in IF submits /\ qok THEN (IF a.w.output.audio_info.valid
                                           THEN Faults ELSE VideoFaults)
                                     ELSE {"none"},
             split \in IF submits /\ qok /\ a.w.output.audio_info.valid
                       THEN BOOLEAN ELSE {FALSE} :
            LET b == render_schedule(a, audio_buf_size, qok, f2, split)
            IN \E f3 \in IF ~b.done /\ b.restart
                         THEN ConfigFaults ELSE {"none"} :
                 LET r == render_auto_restart(b, f3)
                 IN SinkReturns(r.s, r.w, r.flushed, r.again)
  /\ UNCHANGED device_list

\* The values the properties are set to.
ThresholdProperties ==
  {"n_preroll_frames", "min_buffered_frames", "max_buffered_frames"}

PropertyValues(prop) ==
  IF prop \in ThresholdProperties THEN 0..MaxProp
  ELSE IF prop = "auto_restart" THEN BOOLEAN
  ELSE {1, DEFAULT_DESYNC_THRESHOLD}

SinkProperties == ThresholdProperties \cup {"auto_restart", "desync_threshold"}

SinkAudioSizes == { k * BytesPerFrame : k \in 0..MaxAudioSamples }

SinkNext ==
  \/ \E device_number \in {0, 1} : SinkStart(device_number, DEFAULT_PERSISTENT_ID)
  \/ SinkStop
  \/ \E prop \in SinkProperties : \E value \in PropertyValues(prop) :
        SinkSetProperty(prop, value)
  \/ \E channels \in Channels, fault \in ConfigFaults, pool_ok \in BOOLEAN :
        SinkSetCaps(channels, fault, pool_ok)
  \/ SinkRestart
  \/ \E size \in SinkAudioSizes, qok \in BOOLEAN : SinkRender(size, qok)
  \/ \E res \in Results : DeviceComplete(res) /\ UNCHANGED threads
  \/ \E qok \in BOOLEAN : \E its \in BurstChoices(qok) :
        ScheduledFrameCompleted(qok, its) /\ UNCHANGED threads

SinkInit == OutInit /\ InInit /\ OwnInit /\ sink \in {SinkNew, SinkTuned}

SpecSink == SinkInit /\ [][SinkNext]_vars

(***************************************************************************)
(* The output configured, without audio, with every pair of thresholds of  *)
(* a range: the sink's min-buffered and max-buffered properties are        *)
(* independent.                                                            *)
(***************************************************************************)
MaxGapMin == 2          \* largest min_buffered in the threshold pairs
MaxGapMax == 6          \* largest max_buffered in the threshold pairs

GapThresholds(f) ==
  IF f = "none" THEN (0..MaxGapMin) \X (0..MaxGapMax) ELSE {<<0, 0>>}

GapConfigure ==
  \E f \in {"none", "video", "callback"}, m \in Modes :
     \E t \in GapThresholds(f) : Configure(1, t[1], t[2], m, 0, f)

GapNext ==
  \/ StopInternalLocked
  \/ Stop
  \/ GapConfigure
  \/ \E size \in AudioSizes, qok \in BOOLEAN :
        SubmitCheck(size, qok) /\ UNCHANGED threads
  \/ \E split \in SplitChoices : SubmitSchedule("none", split) /\ UNCHANGED threads
  \/ \E res \in Results : DeviceComplete(res) /\ UNCHANGED threads
  \/ \E qok \in BOOLEAN : \E its \in BurstChoices(qok) :
        ScheduledFrameCompleted(qok, its) /\ UNCHANGED threads

SpecGap == Init /\ [][GapNext]_vars

(***************************************************************************)
(* The elements of one process start and stop in any order; each call into *)
(* the registry is serialised by device_lock.                              *)
(***************************************************************************)
OwnNext ==
  /\ UNCHANGED <<outvars, invars, twin, threads, capture, sink>>
  /\ \/ \E e \in SrcElements, device_number \in DeviceNumbers,
            persistent_id \in PersistentIds :
          AcquireInput(e, device_number, persistent_id)
     \/ \E e \in SrcElements : ReleaseInput(e)
     \/ \E e \in SinkElements, device_number \in DeviceNumbers,
            persistent_id \in PersistentIds :
          AcquireOutput(e, device_number, persistent_id)
     \/ \E e \in SinkElements : ReleaseOutput(e)

SpecOwn == Init /\ [][OwnNext]_vars

TypeOK ==
  /\ pc \in {"idle", "failed", "stopping", "schedule"}
  /\ output.n_frames \in 0..(MaxFrames + 4)

(***************************************************************************)
(* Properties of the playout pacer.                                        *)
(***************************************************************************)
Completions == {"Completed", "DisplayedLate", "Dropped"}

IsVideoCall(e) == e.call = "ScheduleVideoFrame"

\* The ScheduleVideoFrame calls of the latest handler, in order.
VideoCalls == SelectSeq(dev_log, IsVideoCall)

\* Whether the latest handler called method m, and whether the call succeeded.
Issued(m) == \E i \in 1..Len(dev_log) : dev_log[i].call = m
Succeeded(m) == \E i \in 1..Len(dev_log) : dev_log[i].call = m /\ dev_log[i].ok

\* The five counters of the stats structure that count irregularities.
IrregularityCounters ==
  <<output.late_count, output.drop_count, output.underrun_count,
    output.overrun_count, output.duplicate_count>>

UnderrunObservable ==
  /\ pending # << >>
  /\ Head(pending) \in Completions
  /\ output.last_frame # NULL
  /\ IsRunning(device)
  /\ NumBuffered(device) <= output.min_buffered

\* C2 (as stated): every completion callback that observes an underrun
\* triggers exactly gap_frames duplicate submissions, so the duplicates of
\* one delivery are gap_frames times the callbacks that counted an underrun.
C2_EveryUnderrunDuplicates ==
  [][(/\ Len(pending') < Len(pending)
      /\ \E qok \in BOOLEAN : \E its \in BurstChoices(qok) :
            ScheduledFrameCompleted(qok, its))
     => output'.duplicate_count - output.duplicate_count =
          output.gap_frames * (output'.underrun_count - output.underrun_count)
    ]_outvars

\* C2: a completion callback (Completed, DisplayedLate or Dropped) that is
\* delivered while no duplication burst is in progress and observes running
\* playback with at most min_buffered frames in the device triggers exactly
\* gap_frames ScheduleVideoFrame submissions of the last frame or its copy
\* and, with the audio output enabled, exactly gap_frames silence
\* insertions (none with audio disabled); a callback that observes no
\* underrun triggers none.
C2_BurstIsGapFrames ==
  [][/\ (/\ Len(pending') < Len(pending)
         /\ UnderrunObservable
         /\ \E its \in BurstChoices(TRUE) : ScheduledFrameCompleted(TRUE, its))
        => /\ output'.duplicate_count = output.duplicate_count + output.gap_frames
           /\ CountCalls(dev_log', "ScheduleVideoFrame") = output.gap_frames
           /\ \A i \in 1..Len(dev_log') :
                 dev_log'[i].call = "ScheduleVideoFrame"
                 => dev_log'[i].frame \in {"copy", "copy2", output.last_frame}
           /\ audio_buf'.video_frame_dup_drop_count =
                audio_buf.video_frame_dup_drop_count +
                  (IF output.audio_info.valid THEN output.gap_frames ELSE 0)
           /\ (output'.silent_sample_count > output.silent_sample_count)
                <=> output.audio_info.valid
     /\ (/\ Len(pending') < Len(pending)
         /\ ~UnderrunObservable
         /\ \E qok \in BOOLEAN : \E its \in BurstChoices(qok) :
               ScheduledFrameCompleted(qok, its))
        => /\ output'.duplicate_count = output.duplicate_count
           /\ dev_log' = << >>
           /\ audio_buf' = audio_buf
    ]_outvars

\* C2 witness: one underrun has been answered by a burst of two duplicates.
C2_BurstOfTwo ==
  /\ output.gap_frames = 2
  /\ output.underrun_count = 1
  /\ output.duplicate_count = 2
  /\ Len(VideoCalls) = 2
  /\ audio_buf.video_frame_dup_drop_count = 2

\* floor (i * fps_d * GST_SECOND / fps_n) and the remainder of that division.
FrameTime(i, mode) ==
  (i * mode.fps_d) * (GST_SECOND \div mode.fps_n)
    + ((i * mode.fps_d) * (GST_SECOND % mode.fps_n)) \div mode.fps_n

FrameTimeRemainder(i, mode) ==
  ((i * mode.fps_d) * (GST_SECOND % mode.fps_n)) % mode.fps_n

\* round (i * fps_d * GST_SECOND / fps_n)
FrameTimeRounded(i, mode) ==
  FrameTime(i, mode)
    + (IF 2 * FrameTimeRemainder(i, mode) >= mode.fps_n THEN 1 ELSE 0)

\* The index, counted from 0 since configure, of the j-th ScheduleVideoFrame
\* call of the latest handler.
FrameIndex(j) == output.n_frames - Len(VideoCalls) + j - 1

\* C5 (as stated): the display time handed to the device for frame i is
\* round (i * fps_d * GST_SECOND / fps_n).
C5_TimesAreRounded ==
  \A j \in 1..Len(VideoCalls) :
     VideoCalls[j].a = FrameTimeRounded(FrameIndex(j), output.selected_mode)

\* C5: the display time handed to the device for frame i (i counted from 0
\* since configure) is floor (i * fps_d * GST_SECOND / fps_n), computed from
\* the frame counter, and its duration is the difference to the floored
\* time of frame i + 1, so that no error accumulates with i.
C5_TimesAreFloored ==
  \A j \in 1..Len(VideoCalls) :
     /\ VideoCalls[j].a = FrameTime(FrameIndex(j), output.selected_mode)
     /\ VideoCalls[j].b = FrameTime(FrameIndex(j) + 1, output.selected_mode)
                            - FrameTime(FrameIndex(j), output.selected_mode)

\* C5 witness: the third frame since configure has been handed to the
\* device, at a display time that is not a whole multiple of the first.
C5_ThirdFrameScheduled ==
  /\ output.n_frames = 3
  /\ Len(VideoCalls) >= 1
  /\ VideoCalls[Len(VideoCalls)].ok
  /\ VideoCalls[Len(VideoCalls)].a # 2 * FrameTime(1, output.selected_mode)

\* The number of frames after which preroll completes.
PrerollFrames == Max(output.n_preroll_frames, 1)

\* C6 (as stated): scheduled playback starts when exactly n_preroll_frames
\* frames have been submitted.
C6_StartsAtExactlyP ==
  Succeeded("StartScheduledPlayback")
  => output.n_frames = output.n_preroll_frames

\* C6: after a successful configure with n_preroll_frames = P, scheduled
\* playback is started when exactly max (P, 1) frames have been submitted
\* and not before, StartScheduledPlayback is called at most once per
\* configuration, and at the start the device holds max (P, 1) frames and
\* none of the late, drop, underrun, overrun and duplicate counters has
\* been incremented.
C6_PrerollCompletion ==
  output.configured
  => /\ dev_calls["StartScheduledPlayback"] <= 1
     /\ output.n_frames < PrerollFrames
        => /\ ~output.prerolled
           /\ ~IsRunning(device)
           /\ dev_calls["StartScheduledPlayback"] = 0
     /\ (pc = "idle" /\ ret = S_OK /\ output.n_frames >= PrerollFrames)
        => (output.prerolled /\ IsRunning(device))
     /\ output.prerolled => dev_calls["StartScheduledPlayback"] = 1
     /\ Succeeded("StartScheduledPlayback")
        => /\ output.prerolled
           /\ output.n_frames = PrerollFrames
           /\ NumBuffered(device) = PrerollFrames
           /\ IrregularityCounters = <<0, 0, 0, 0, 0>>

\* C6 witness: playback has just been started after a preroll of two frames.
C6_StartedAfterTwo ==
  /\ Succeeded("StartScheduledPlayback")
  /\ output.n_preroll_frames = 2
  /\ NumBuffered(device) = 2
  /\ output.prerolled

\* C7 (as stated): BeginAudioPreroll is issued before the first
\* ScheduleVideoFrame after configure.
C7_BeginBeforeFirstVideo ==
  \A i \in 1..Len(dev_log) :
     dev_log[i].call = "BeginAudioPreroll"
     => \A j \in 1..(i - 1) : dev_log[j].call # "ScheduleVideoFrame"

\* C7: with audio enabled BeginAudioPreroll is issued at most once per
\* configuration, directly after the first ScheduleVideoFrame and before the
\* first ScheduleAudioSamples, and EndAudioPreroll is issued directly before
\* StartScheduledPlayback; with audio disabled neither preroll call and no
\* ScheduleAudioSamples is issued.
C7_PrerollOrdering ==
  /\ dev_calls["BeginAudioPreroll"] <= 1
  /\ dev_calls["EndAudioPreroll"] <= 1
  /\ (output.configured /\ ~output.audio_info.valid)
     => /\ dev_calls["BeginAudioPreroll"] = 0
        /\ dev_calls["EndAudioPreroll"] = 0
        /\ dev_calls["ScheduleAudioSamples"] = 0
  /\ \A i \in 1..Len(dev_log) :
        dev_log[i].call = "BeginAudioPreroll"
        => /\ i = 2
           /\ dev_log[1].call = "ScheduleVideoFrame"
           /\ dev_calls["ScheduleVideoFrame"] = 1
           /\ dev_calls["ScheduleAudioSamples"] =
                CountCalls(dev_log, "ScheduleAudioSamples")
           /\ \A j \in 1..Len(dev_log) :
                 dev_log[j].call = "ScheduleAudioSamples" => j > i
  /\ dev_calls["ScheduleAudioSamples"] > 0 => dev_calls["BeginAudioPreroll"] = 1
  /\ dev_calls["EndAudioPreroll"] = 1 => dev_calls["BeginAudioPreroll"] = 1
  /\ \A i \in 1..Len(dev_log) :
        (dev_log[i].call = "StartScheduledPlayback" /\ output.audio_info.valid)
        => /\ i > 1
           /\ dev_log[i - 1].call = "EndAudioPreroll"
           /\ dev_log[i - 1].ok

\* C7 witness: one handler has begun the audio preroll, handed audio to the
\* device, ended the preroll and started playback.
C7_PrerollInOneCall ==
  /\ Succeeded("BeginAudioPreroll")
  /\ Succeeded("ScheduleAudioSamples")
  /\ Succeeded("EndAudioPreroll")
  /\ Succeeded("StartScheduledPlayback")

\* C8: after k duplicated frames since configure the synthesized silence
\* totals floor (k * fps_d * rate / fps_n) samples: silent_sample_count and
\* the audio buffer's running offset both equal that total, k being both
\* duplicate_count and the buffer's duplicate counter; with audio disabled
\* no silence is synthesized.
C8_SilenceIsSampleAccurate ==
  output.configured
  => IF output.audio_info.valid
     THEN /\ audio_buf.video_frame_dup_drop_count = output.duplicate_count
          /\ output.silent_sample_count =
               (output.duplicate_count * output.selected_mode.fps_d
                  * output.audio_info.rate) \div output.selected_mode.fps_n
          /\ audio_buf.dup_drop_sample_offset_end = output.silent_sample_count
     ELSE output.silent_sample_count = 0

\* C8 witness: two frames have been duplicated at 30000/1001 fps and the
\* silence totals 3203 samples, one more than twice the first insertion.
C8_TwoDuplicates ==
  /\ output.configured
  /\ output.duplicate_count = 2
  /\ output.silent_sample_count = 3203

(***************************************************************************)
(* Properties of the capture side.                                         *)
(***************************************************************************)
Abs(x) == IF x < 0 THEN 0 - x ELSE x

\* floor ((GST_SECOND / 20) * fps_d / fps_n): the whole nanoseconds in 5% of
\* one frame duration.
JumpBudget(mode) ==
  (50000000 \div mode.fps_n) * mode.fps_d
    + ((50000000 % mode.fps_n) * mode.fps_d) \div mode.fps_n

\* The latest callback updated the mapping and left the pending mapping
\* pending: its promotion was deferred.
Deferred == arrival.mapped /\ input.next_time_mapping_pending

\* C3: in every update in which the promotion of the pending mapping is
\* deferred, the value of the current mapping at that update's stream time
\* changes by at most 5% of one frame duration.
C3_DeferredJumpWithinBudget ==
  Deferred =>
    Abs(ApplyMapping(input.current_time_mapping, arrival.stream_time)
          - arrival.before) <= JumpBudget(input.selected_mode)

\* A deferred promotion moved the value by the whole budget.
C3_MovedByWholeBudget ==
  /\ Deferred
  /\ ApplyMapping(input.current_time_mapping, arrival.stream_time)
       = arrival.before + JumpBudget(input.selected_mode)

TrackedPacket ==
  /\ arrival.packet
  /\ arrival.next # INVALID_AUDIO_OFFSET
  /\ arrival.outcome # "restarted"

\* The captured samples with offsets from .. to - 1, and k silent samples.
Captured(from, to) == [i \in 1..(to - from) |-> [silent |-> FALSE, offset |-> from + i - 1]]
SilentRun(k) == [i \in 1..k |-> [silent |-> TRUE, offset |-> 0]]

\* What reconciliation appends for a packet of n samples declared at d when
\* the expected offset is next.
Reconciled(next, d, n) ==
  IF d = next THEN Captured(d, d + n)
  ELSE IF d > next THEN SilentRun(d - next) \o Captured(d, d + n)
  ELSE IF next - d >= n THEN << >>
  ELSE Captured(next, d + n)

\* C9 as stated: every packet after the first is appended as the
\* reconciliation rule says.
C9_EveryPacketReconciled ==
  TrackedPacket => arrival.pushed = Reconciled(arrival.next, arrival.d, arrival.n)

\* C9 (amended): a packet after the first that is not empty and whose time
\* and data are read in a callback that reaches the audio stage is appended
\* as the reconciliation rule says; any other packet is skipped and nothing
\* is appended for it, not even the silence of a gap.
C9_ReadPacketReconciled ==
  TrackedPacket =>
    /\ arrival.reconciled
         => arrival.pushed = Reconciled(arrival.next, arrival.d, arrival.n)
    /\ ~arrival.reconciled => arrival.pushed = << >>
    /\ arrival.n = 0 => ~arrival.reconciled
    /\ arrival.outcome \in {"no_clock", "no_bytes"} => ~arrival.reconciled

\* A packet overlapping the expected offset was trimmed, and one ahead of
\* it was preceded by silence.
C9_TrimmedPacket ==
  /\ TrackedPacket
  /\ arrival.reconciled
  /\ arrival.d < arrival.next
  /\ arrival.pushed = Captured(arrival.next, arrival.d + arrival.n)
  /\ Len(arrival.pushed) > 0

\* C10: for every packet after the seeding packet the expected offset
\* advances by exactly the number of samples pushed into the adapter for it
\* (none when the packet is dropped), and after a packet that is not dropped
\* entirely it equals the declared offset plus the packet's sample count.
C10_AdvancesBySamplesPushed ==
  TrackedPacket =>
    /\ input.next_audio_offset = arrival.next + Len(arrival.pushed)
    /\ Len(arrival.pushed) > 0
         => input.next_audio_offset = arrival.d + arrival.n

\* A gap was filled: more samples were pushed than the packet held.
C10_GapFilled ==
  /\ TrackedPacket
  /\ arrival.d > arrival.next
  /\ Len(arrival.pushed) = arrival.n + (arrival.d - arrival.next)
  /\ arrival.n > 0


(***************************************************************************)
(* Claims on the failure paths of the output.                              *)
(***************************************************************************)
ConfigureStep ==
  \E f \in ConfigFaults, m \in Modes, ch \in Channels :
     \E p \in PrerollChoices(f), mn \in MinChoices(f), mx \in MaxChoices(f) :
        Configure(p, mn, mx, m, ch, f)

\* C16: when gst_decklink2_output_configure returns a failure, the audio
\* output and the video output are disabled and the completion callback is
\* cleared on the device, and the output is neither configured nor
\* prerolled.
C16_FailedConfigureRolledBack ==
  [][(ConfigureStep /\ ret' # S_OK) =>
        /\ ~device'.video /\ ~device'.audio /\ ~device'.callback
        /\ ~output'.configured /\ ~output'.prerolled]_vars

\* A configure failed on an output that had been streaming: stop_internal
\* ran first, and the failure left nothing enabled.
C16_FailedReconfigure ==
  /\ pc = "idle" /\ ret = E_FAIL /\ ~output.configured
  /\ output.n_frames > 0

SubmitStep ==
  \E f \in SubmitFaults, split \in SplitChoices : SubmitSchedule(f, split)

C12_QueueWithinBufferSize == Len(queue) <= input.buffer_size

GetDataStep == GetData \/ GetDataWake

C14_StopWakesConsumers ==
  /\ [](~input.started => (queue = << >> /\ consumer.pc # "waiting"))
  /\ [](\A i \in 1..Len(queue) : queue[i].frame > hw.stopped)
  /\ [][(GetDataStep /\ ~input.started /\ ~input.flushing) =>
          /\ consumer'.pc = "out"
          /\ consumer'.ret = GST_DECKLINK2_INPUT_FLOW_STOPPED
          /\ consumer'.buf = NoBuffer]_vars
  /\ [][(GetDataStep /\ consumer'.ret = GST_FLOW_OK) =>
          consumer'.buf.frame > hw.stopped]_vars
  /\ ((consumer.pc = "woken" /\ ~input.started) ~>
        (consumer.pc = "out" /\
           (consumer.ret = GST_DECKLINK2_INPUT_FLOW_STOPPED \/ input.flushing)))

\* A waiter was woken by a stop that threw buffers away, and returned the
\* stopped result.
C14_StoppedWhileWaiting ==
  /\ consumer.pc = "out"
  /\ consumer.ret = GST_DECKLINK2_INPUT_FLOW_STOPPED
  /\ consumer.wake = "stop"
  /\ hw.stopped > 0

\* C15 as stated, in its last part: a thread that was waiting when a unit
\* was pushed, and that finds the input neither flushing nor stopped when it
\* has the lock again, returns that unit.
C15_WaiterReturnsPushedUnit ==
  [][(GetDataWake /\ consumer.wake = "push"
        /\ ~input.flushing /\ input.started) =>
       /\ consumer'.ret = GST_FLOW_OK
       /\ consumer'.buf.frame = consumer.unit]_vars

\* C15: get_data waits exactly while the queue is empty, the input not
\* flushing and started; it returns GST_FLOW_OK only with the buffer that
\* was at the head of a non-empty queue, which it removes; the queue holds
\* the frames in the order the callback pushed them and a frame is handed
\* out at most once, later frames after earlier ones; and a thread that was
\* waiting when a unit was pushed does return: when it finds the input
\* neither flushing nor stopped it returns a unit that is the pushed one if
\* at most buffer_size further frames arrived before it took the lock, and
\* otherwise the oldest unit that was not evicted.
C15_BlockingPopIsFifo ==
  /\ [][GetDataStep =>
          (consumer'.pc = "waiting" <=> MustWait(input, queue))]_vars
  /\ [][(GetDataStep /\ consumer'.ret = GST_FLOW_OK) =>
          /\ queue # << >>
          /\ consumer'.buf = Head(queue)
          /\ queue' = Tail(queue)
          /\ consumer'.buf.frame > consumer.last]_vars
  /\ [](\A i \in 1..Len(queue) : \A j \in 1..Len(queue) :
           i < j => queue[i].frame < queue[j].frame)
  /\ [][(GetDataWake /\ consumer.wake = "push"
            /\ ~input.flushing /\ input.started) =>
          /\ consumer'.ret = GST_FLOW_OK
          /\ consumer'.buf.frame >= consumer.unit
          /\ (hw.frames - consumer.unit <= input.buffer_size
                 => consumer'.buf.frame = consumer.unit)]_vars
  /\ ((consumer.pc = "woken" /\ consumer.wake = "push") ~>
        consumer.pc = "out")

\* A thread that waited on an empty queue was woken by a push and returned
\* the pushed unit while later units were already queued behind it.
C15_WaiterGotPushedUnit ==
  /\ consumer.pc = "out" /\ consumer.ret = GST_FLOW_OK
  /\ consumer.wake = "push"
  /\ consumer.buf.frame = consumer.unit
  /\ queue # << >>

\* What the tracker decided for the packet of the latest callback: whether
\* the packet reached the reconciliation, the samples pushed to the adapter
\* (silence or packet samples, in order) and the offset expected next.
Decisions(s, a) ==
  [reconciled |-> a.reconciled, pushed |-> a.pushed,
   next_audio_offset |-> s.next_audio_offset]

C18_SubmitTerminates ==
  (pc \in {"schedule", "drain"}) ~> (pc \in {"idle", "failed"})

\* The pacer state the completion callback shares with the other threads.
SharedPacerState ==
  <<output.n_frames, output.pts, output.n_samples, output.n_prerolled,
    output.prerolled, output.last_frame, audio_buf, output.min_buffered,
    output.gap_frames, output.late_count, output.drop_count,
    output.underrun_count, output.overrun_count, output.duplicate_count,
    output.dropped_sample_count, output.silent_sample_count>>

\* C19: while the pipeline thread is inside a submit or a completion waits
\* for the driver's thread, a step that changes the pacer state shared with
\* the completion callback is taken by a thread that holds the scheduling
\* lock.
C19_SharedStateUnderSchedulingLock ==
  [][((pc = "schedule" \/ pending # << >>)
        /\ SharedPacerState' # SharedPacerState)
       => schedule_lock \in threads'.held]_vars

\* C20: a submit that passed its overrun test before a stop began does not,
\* once the stop has begun, hand a frame or audio to the device or set
\* last_frame.
C20_NoSubmitAcrossStop ==
  [][(threads.stale /\ pc = "schedule" /\ pc' # "schedule")
       => /\ dev_log' = << >>
          /\ output'.last_frame = output.last_frame]_vars

(***************************************************************************)
(* Claims on the pacer's states and counters.                              *)
(***************************************************************************)
\* x clamped to the range lo..hi.
Clamp(x, lo, hi) == Max(lo, Min(hi, x))

\* C27: on a configured output gap_frames is half the distance from
\* min_buffered to max_buffered (integer division) clamped to 1..2, that is
\* 2 exactly when the distance is at least 4; and gap_frames changes in no
\* step other than a configure.
C27_GapFrames ==
  /\ [](output.configured =>
          /\ output.gap_frames =
                Clamp((output.max_buffered - output.min_buffered) \div 2, 1, 2)
          /\ (output.gap_frames = 2) <=>
                (output.max_buffered - output.min_buffered >= 4))
  /\ [][output'.gap_frames # output.gap_frames =>
          Configure(1, output'.min_buffered, output'.max_buffered,
                    output'.selected_mode, 0, "none")]_vars

\* Playback runs with thresholds three apart (gap_frames 1) and an underrun
\* has been counted.
C27_GapOfThree ==
  /\ output.configured /\ output.prerolled
  /\ output.max_buffered - output.min_buffered = 3
  /\ output.underrun_count > 0

\* A delivery of the driver's callback thread.
CallbackStep ==
  /\ Len(pending') < Len(pending)
  /\ pc' = pc
  /\ \E qok \in BOOLEAN : \E its \in BurstChoices(qok) :
        ScheduledFrameCompleted(qok, its)

\* The number of results of kind in the completions seq.
CountOf(seq, kind) == Cardinality({ i \in 1..Len(seq) : seq[i] = kind })

\* The recovery counters and what a recovery schedules.
RecoveryCounters ==
  <<output.underrun_count, output.duplicate_count, output.silent_sample_count>>

\* C28: over the completions one delivery consumes (the one it is called
\* with and those the driver delivers from inside its scheduling calls),
\* late_count grows by the number of DisplayedLate results and drop_count by
\* the number of Dropped results, so a Completed result changes neither and
\* a late or dropped one only its own counter of the two; a delivery of a
\* Flushed or unknown result changes no counter and calls nothing; and an
\* underrun is counted only in a delivery that found a last frame held and
\* scheduled playback running.
C28_CountersByResultKind ==
  [][CallbackStep =>
       LET consumed == SubSeq(pending, 1, Len(pending) - Len(pending'))
       IN /\ output'.late_count =
                output.late_count + CountOf(consumed, "DisplayedLate")
          /\ output'.drop_count =
                output.drop_count + CountOf(consumed, "Dropped")
          /\ Head(pending) \notin Completions =>
                /\ output' = output /\ audio_buf' = audio_buf
                /\ device' = device /\ dev_log' = << >>
                /\ Len(consumed) = 1
          /\ (RecoveryCounters' # RecoveryCounters \/ dev_log' # << >>) =>
                output.last_frame # NULL /\ IsRunning(device)]_vars

\* Late and dropped completions have been counted beside an underrun.
C28_LateAndDroppedCounted ==
  /\ output.late_count > 0
  /\ output.drop_count > 0
  /\ output.underrun_count > 0

\* The pacer's states in terms of its two flags.
Idle == ~output.configured
Prerolling == output.configured /\ ~output.prerolled
Playing == output.configured /\ output.prerolled

\* A gst_decklink2_output_configure call returns.
ConfigureReturns ==
  (pc = "stopping" \/ ~output.configured) /\ pc' = "idle" /\ ConfigureStep

RefusedCalls ==
  { i \in 1..Len(dev_log) :
      /\ dev_log[i].call \in {"ScheduleVideoFrame", "ScheduleAudioSamples"}
      /\ ~dev_log[i].ok }

\* The ScheduleVideoFrame calls of the latest handler the device accepted.
AcceptedVideoCalls ==
  Cardinality({ i \in 1..Len(dev_log) :
                  dev_log[i].call = "ScheduleVideoFrame" /\ dev_log[i].ok })

\* C24: when the device refuses the scheduling of a duplicate frame or of
\* its audio during a recovery burst, the failure is reported as an error
\* and the refused frame is not counted as a duplicate.
C24_FailedResubmissionEscalated ==
  [][(CallbackStep /\ RefusedCalls' # {}) =>
        /\ ret' # S_OK
        /\ output'.duplicate_count - output.duplicate_count
             = AcceptedVideoCalls']_vars

\* The frame the i-th iteration of a burst starts from: last_frame as the
\* callback found it, then the frame of the iteration before.
BurstFrom(i) == IF i = 1 THEN output.last_frame ELSE VideoCalls'[i - 1].frame

\* C25: last_frame, while set, is held by exactly one reference of the
\* output; in a recovery burst every iteration schedules a frame, the
\* last_frame object itself where the clone failed and a new clone of it
\* otherwise, inserts the silence and counts the duplicate, whatever the
\* iterations before it did, and the frame scheduled last is the one held
\* afterwards.
C25_CloneFailureNotFatal ==
  /\ [](output.last_frame # NULL => output.last_frame_refs = 1)
  /\ [][(/\ Len(pending') < Len(pending)
         /\ pc' = pc
         /\ output'.duplicate_count # output.duplicate_count)
        => /\ Len(VideoCalls') = output.gap_frames
           /\ output'.duplicate_count =
                output.duplicate_count + output.gap_frames
           /\ audio_buf'.video_frame_dup_drop_count =
                audio_buf.video_frame_dup_drop_count +
                  (IF output.audio_info.valid THEN output.gap_frames ELSE 0)
           /\ output'.last_frame = VideoCalls'[output.gap_frames].frame
           /\ output'.last_frame # NULL
           /\ \A qok \in BOOLEAN : \A its \in BurstChoices(qok) :
                 (/\ its # << >>
                  /\ \A i \in 1..output.gap_frames :
                        (its[i].fault = "video") <=> ~VideoCalls'[i].ok
                  /\ ScheduledFrameCompleted(qok, its))
                 => \A i \in 1..output.gap_frames :
                       VideoCalls'[i].frame =
                         IF its[i].clone THEN CloneOf(BurstFrom(i))
                         ELSE BurstFrom(i)]_vars

\* A burst of two has run whose first clone failed and whose second clone
\* succeeded: the frame the sink submitted was scheduled again, then its
\* clone, which is the frame now held.
C25_FallbackThenClone ==
  /\ Len(VideoCalls) = 2
  /\ VideoCalls[1].frame = "frame"
  /\ VideoCalls[2].frame = "copy"
  /\ output.last_frame = "copy"
  /\ output.last_frame_refs = 1
  /\ output.duplicate_count >= 2

\* C21: while a recovery burst is in progress last_frame is set, so every
\* iteration has a frame to clone or resubmit, and no step but the burst's
\* own changes it; the burst runs min (gap_frames, 2) iterations, each
\* scheduling one frame, before the callback returns; last_frame is cleared
\* only by a step taken while no thread holds schedule_lock between steps.
C21_StopWaitsForBurst ==
  /\ [](threads.owner = "driver" =>
          /\ output.last_frame # NULL
          /\ output.duplicating
          /\ threads.left \in 0..Min(output.gap_frames, 2))
  /\ [][/\ (threads.owner = "none" /\ threads'.owner = "driver") =>
             threads'.left = output'.gap_frames
        /\ (threads.owner = "driver" /\ threads'.owner = "driver") =>
             \/ /\ threads'.left = threads.left - 1
                /\ output'.duplicate_count = output.duplicate_count + 1
                /\ Len(VideoCalls') = 1
                /\ output'.last_frame # NULL
             \/ /\ threads'.left = threads.left
                /\ output' = output
        /\ (threads.owner = "driver" /\ threads'.owner = "none") =>
             threads.left = 0 /\ output'.last_frame = output.last_frame
        /\ (output.last_frame # NULL /\ output'.last_frame = NULL) =>
             threads.owner = "none" /\ pc' = "stopping"]_vars

\* A burst of two has run its first iteration on an output the pipeline
\* thread may stop next: the stop has to wait for the second.
C21_BurstInProgress ==
  /\ threads.owner = "driver"
  /\ threads.left = 1
  /\ output.gap_frames = 2
  /\ output.duplicate_count = 1
  /\ output.configured
  /\ pc = "idle"

(***************************************************************************)
(* Claims on the capture side's resets.                                    *)
(***************************************************************************)
\* The callback delivers a frame that does not carry
\* bmdFrameHasNoInputSource.
GoodFrameArrives ==
  /\ hw'.calls = hw.calls + 1
  /\ \E packet \in BOOLEAN :
       \E d \in (IF packet THEN PacketOffsets ELSE {0}),
          n \in (IF packet THEN 1..MaxPacketSamples ELSE {0}) :
         FrameArrived(TRUE, FALSE, "none", 0, NoRegression, packet, d, n)

\* The time mapping of s is as gst_decklink2_input_reset_time_mapping
\* leaves it.
MappingReset(s) ==
  /\ s.window_fill = 0
  /\ ~s.window_filled
  /\ s.window_skip = 1
  /\ s.window_skip_count = 0
  /\ s.current_time_mapping = TimeMapping(0, 0, 1, 1)
  /\ s.next_time_mapping = TimeMapping(0, 0, 1, 1)

\* C23: a frame without the no-input-source flag that arrives while signal
\* is FALSE resets the time mapping, restarts the device's streams, clears
\* the pending audio and both audio offsets, sets signal and enqueues
\* nothing.
C23_SignalRestoredReset ==
  [][(GoodFrameArrives /\ ~input.signal) =>
        /\ arrival'.outcome = "restarted"
        /\ MappingReset(input')
        /\ hw'.epoch = hw'.frames
        /\ adapter' = << >>
        /\ input'.audio_offset = INVALID_AUDIO_OFFSET
        /\ input'.next_audio_offset = INVALID_AUDIO_OFFSET
        /\ input'.signal
        /\ queue' = queue]_vars

\* C26: when gst_decklink2_input_start returns S_OK the queue is empty, the
\* time mapping is reset, both audio offsets are unset and no audio is
\* pending.
C26_NothingPersistsAcrossStart ==
  [][(~input.started /\ input'.started) =>
        /\ queue' = << >>
        /\ MappingReset(input')
        /\ input'.audio_offset = INVALID_AUDIO_OFFSET
        /\ input'.next_audio_offset = INVALID_AUDIO_OFFSET
        /\ adapter' = << >>]_vars

(***************************************************************************)
(* Claims on the time mapping's window.                                    *)
(***************************************************************************)
\* The callback's frame is the first whose pair enters the window since
\* the reset.
FirstPair ==
  ~input.window_filled /\ input.window_fill = 0 /\ input'.window_fill = 1

\* C29: the first pair after a reset makes the current mapping xbase =
\* stream time, b = capture time, slope 1/1 with nothing pending, and the
\* frame's PTS is its capture time; until the window has filled no step
\* changes the current mapping again, the next mapping stays as the reset
\* left it and nothing is pending, so every frame's PTS is the seed's b plus
\* the stream time elapsed since the seed; no PTS is computed from a mapping
\* that was not seeded.
C29_FirstPairSeedsMapping ==
  /\ [](~input.window_filled =>
          /\ input.next_time_mapping = TimeMapping(0, 0, 1, 1)
          /\ input.window_fill >= 1 =>
                /\ ~input.next_time_mapping_pending
                /\ input.current_time_mapping.num = 1
                /\ input.current_time_mapping.den = 1)
  /\ [][/\ FirstPair =>
             \A latency \in Latencies :
               \A reg \in RegressionResults(input, hw.frames + 1) :
                 FrameArrived(TRUE, FALSE, "none", latency, reg, FALSE, 0, 0)
                 => /\ input'.current_time_mapping =
                         TimeMapping(arrival'.stream_time,
                                     arrival'.stream_time + latency, 1, 1)
                    /\ arrival'.pts = arrival'.stream_time + latency
        /\ (~input'.window_filled /\ input.window_fill >= 1
              /\ hw'.calls = hw.calls + 1) =>
             /\ input'.current_time_mapping = input.current_time_mapping
             /\ arrival'.pts = input.current_time_mapping.b +
                   (arrival'.stream_time - input.current_time_mapping.xbase)
        /\ (hw'.calls = hw.calls + 1 /\ arrival'.mapped) =>
             input'.window_filled \/ input'.window_fill >= 1]_vars

\* The window is one pair short of full and the frames so far were stamped
\* from a seed taken 1 ms after its stream time.
C29_SeedStillCurrent ==
  /\ ~input.window_filled
  /\ input.window_fill = WindowSize - 1
  /\ input.current_time_mapping.b = input.current_time_mapping.xbase + 1000000
  /\ arrival.pts = arrival.stream_time + 1000000

\* 4 * fps, the largest decimation.
SkipCap == 4 * RoundedUpFps(input.selected_mode)

\* The step is a reset of the time mapping.
IsReset == input' = gst_decklink2_input_reset_time_mapping(input)

\* What the window's counters are in every state, and what a reset and an
\* update that stores no pair do.
SkipBounds ==
  /\ input.window_skip \in 1..SkipCap
  /\ input.window_skip_count \in 0..(input.window_skip - 1)
  /\ input.window_fill \in 0..(WindowSize - 1)

SkipResets ==
  /\ input'.window_skip = 1
  /\ input'.window_skip_count = 0
  /\ input'.window_fill = 0
  /\ ~input'.window_filled

SkipsPair ==
  /\ input'.window_fill = input.window_fill
  /\ input'.window_filled = input.window_filled
  /\ input'.window_skip = input.window_skip
  /\ input'.window_skip_count = (input.window_skip_count + 1) % input.window_skip

\* An update that stores a pair: the window advances and, when it fills,
\* wraps and doubles window_skip up to the capture.
StoresPair ==
  /\ input'.window_fill = (input.window_fill + 1) % WindowSize
  /\ input'.window_filled = (input.window_filled \/ input'.window_fill = 0)
  /\ input'.window_skip =
       IF input'.window_fill = 0 THEN Min(2 * input.window_skip, SkipCap)
       ELSE input.window_skip

\* C30 (as stated): window_skip is 1 after a reset, doubles up to 4 * fps
\* with every fill of the window and never decreases between resets; a
\* pair is stored only when window_skip_count is 0, and after a call that
\* stored one the next is stored window_skip calls later.
C30_DecimationSchedule ==
  /\ []SkipBounds
  /\ [][IF IsReset THEN SkipResets
        ELSE /\ input'.window_skip >= input.window_skip
             /\ IF input.window_skip_count = 0
                THEN /\ StoresPair
                     /\ input'.window_skip_count = 1 % input'.window_skip
                ELSE SkipsPair]_vars

\* C30: as above, except that the counter wraps against the window_skip the
\* call began with: the call that fills the window for the first time
\* leaves the counter at 0 while window_skip becomes 2, so the call after it
\* stores a pair too.
C30_DecimationCounted ==
  /\ []SkipBounds
  /\ [][IF IsReset THEN SkipResets
        ELSE /\ input'.window_skip >= input.window_skip
             /\ IF input.window_skip_count = 0
                THEN /\ StoresPair
                     /\ input'.window_skip_count = 1 % input.window_skip
                ELSE SkipsPair]_vars

\* The decimation has reached its capture and the next call stores a pair.
C30_SkipAtCap ==
  /\ input.window_skip = SkipCap
  /\ input.window_skip > 128
  /\ input.window_fill = 1
  /\ input.window_skip_count = input.window_skip - 1


(***************************************************************************)
(* Claims on the promotion of the pending mapping.                         *)
(***************************************************************************)
\* The step is a callback whose frame updated the time mapping.
MappingUpdated == hw'.calls = hw.calls + 1 /\ arrival'.mapped

\* The values of the current mapping, as it was before the update, and of
\* the pending mapping, as the update leaves it, at the update's stream time.
ExpectedAt == ApplyMapping(input.current_time_mapping, arrival'.stream_time)
CalculatedAt == ApplyMapping(input'.next_time_mapping, arrival'.stream_time)

WithinBudget ==
  Abs(CalculatedAt - ExpectedAt) <= JumpBudget(input.selected_mode)

\* The update made the pending mapping the current one.
Promoted ==
  /\ WithinBudget
  /\ input'.current_time_mapping = input'.next_time_mapping
  /\ ~input'.next_time_mapping_pending

\* The update moved the current mapping by the budget and kept the pending
\* mapping pending.
Nudged ==
  /\ ~WithinBudget
  /\ input'.current_time_mapping =
       TimeMapping(arrival'.stream_time,
                   IF CalculatedAt > ExpectedAt
                     THEN ExpectedAt + JumpBudget(input.selected_mode)
                     ELSE ExpectedAt - JumpBudget(input.selected_mode),
                   input.current_time_mapping.num,
                   input.current_time_mapping.den)
  /\ input'.next_time_mapping_pending

\* C31: an update that changes the current mapping, other than by seeding
\* it, either promotes the pending mapping (the two mappings differ by at
\* most the budget at the stream time; current becomes the pending mapping
\* and the flag is cleared) or nudges it (they differ by more; only xbase
\* and b change, b to the old value at the stream time moved by the budget
\* toward the pending value, and the flag stays set); an update that begins
\* with the flag set or that stores a new pending mapping does one of the
\* two, whether or not the frame's pair is sampled.
C31_PromotionRule ==
  [][MappingUpdated =>
       /\ (input'.current_time_mapping # input.current_time_mapping
             /\ ~FirstPair) => (Promoted \/ Nudged)
       /\ (input.next_time_mapping_pending
             \/ input'.next_time_mapping_pending
             \/ input'.next_time_mapping # input.next_time_mapping)
            => (Promoted \/ Nudged)
       /\ (input.next_time_mapping_pending /\ input.window_skip_count # 0)
            => /\ input'.next_time_mapping = input.next_time_mapping
               /\ (Promoted \/ Nudged)]_vars

\* A frame skipped by the decimation retried the promotion that the frame
\* before it had deferred, and deferred it again.
C31_RetriedOnSkippedFrame ==
  /\ arrival.mapped
  /\ hw.calls = 67
  /\ input.window_filled
  /\ input.window_skip = 2
  /\ input.window_skip_count = 0
  /\ input.window_fill = 1
  /\ input.next_time_mapping_pending
  /\ input.current_time_mapping.xbase = arrival.stream_time
  /\ input.current_time_mapping.b
       = arrival.before + JumpBudget(input.selected_mode)


(***************************************************************************)
(* Claims on frames whose stream time the device does not report.          *)
(***************************************************************************)
\* What the drift estimator keeps.
Estimator(s) ==
  <<s.window_size, s.window_fill, s.window_filled, s.window_skip,
    s.window_skip_count, s.current_time_mapping, s.next_time_mapping,
    s.next_time_mapping_pending>>

\* The step is a callback that queued a frame whose stream time could not
\* be read.
FallbackFrame ==
  hw'.calls = hw.calls + 1 /\ arrival'.outcome = "queued" /\ ~arrival'.mapped

\* C32: a frame whose stream time the device cannot report is queued with
\* its capture time as PTS and no duration, and the callback leaves the
\* window's counters, the current mapping, the pending mapping and the
\* pending flag as they were.
C32_StreamTimeFallback ==
  [][FallbackFrame =>
       /\ Estimator(input') = Estimator(input)
       /\ queue'[Len(queue')].dur = GST_CLOCK_TIME_NONE
       /\ \A latency \in Latencies, reg \in RegressionChoices :
            FrameArrived(TRUE, FALSE, "stream_time", latency, reg, FALSE, 0, 0)
              => queue'[Len(queue')].pts = arrival'.stream_time + latency]_vars

\* A frame without stream time was queued, stamped with its capture time,
\* while a mapping was pending and the next pair was due to be sampled.
C32_FallbackWhilePending ==
  /\ arrival.outcome = "queued"
  /\ ~arrival.mapped
  /\ input.window_filled
  /\ input.window_skip_count = 0
  /\ input.next_time_mapping_pending
  /\ queue[Len(queue)].pts = arrival.stream_time + 1000000
  /\ queue[Len(queue)].dur = GST_CLOCK_TIME_NONE


(***************************************************************************)
(* Claims on the recovery's re-entrancy guard.                             *)
(***************************************************************************)
\* The completions the delivery consumed: its own and those the driver
\* delivered from inside the loop's scheduling calls.
Consumed == Len(pending) - Len(pending')

\* C33: duplicating is FALSE whenever no callback is executing; a delivery
\* schedules either no duplicate or exactly gap_frames of them, with as many
\* silence insertions when audio is enabled, however many callbacks were
\* delivered from inside its loop and however many of them counted an
\* underrun: a callback that runs while duplicating is TRUE schedules no
\* frame and inserts no silence.
C33_NoNestedRecovery ==
  /\ [](~output.duplicating)
  /\ [][CallbackStep =>
          LET dups == output'.duplicate_count - output.duplicate_count
          IN /\ dups \in {0, output.gap_frames}
             /\ CountCalls(dev_log', "ScheduleVideoFrame") = dups
             /\ audio_buf'.video_frame_dup_drop_count =
                  audio_buf.video_frame_dup_drop_count +
                    (IF output.audio_info.valid THEN dups ELSE 0)
             /\ Consumed >= 2 =>
                  /\ dups = output.gap_frames
                  /\ output'.underrun_count - output.underrun_count
                       \in 1..Consumed]_vars

\* One delivery ran a burst of two duplicates during which a second
\* callback arrived and counted an underrun of its own.
C33_UnderrunInsideBurst ==
  /\ output.gap_frames = 2
  /\ output.underrun_count = 2
  /\ output.duplicate_count = 2
  /\ Len(VideoCalls) = 2
  /\ pending = << >>
  /\ ~output.duplicating


(***************************************************************************)
(* Claims on the output's audio position.                                  *)
(***************************************************************************)
RECURSIVE WrittenUpTo(_, _)
\* The samples the device reported written in the first i calls of log.
WrittenUpTo(log, i) ==
  IF i = 0 THEN 0
  ELSE WrittenUpTo(log, i - 1) +
         (IF log[i].call = "ScheduleAudioSamples" /\ log[i].ok
            THEN log[i].c ELSE 0)

\* The samples pending in the audio buffer.
PendingSamples(ab) == IF ab.init_done THEN ab.buffer \div ab.info.bpf ELSE 0

\* Sample counts to flush from a buffer of pending samples: none, one, all
\* but one, all, and one more than all.
FlushSizes(pending_samples) ==
  { n \in {0, 1, pending_samples - 1, pending_samples, pending_samples + 1} :
      n >= 0 }

\* C34: while the output is configured with audio, the buffer's position is
\* the number of samples the device has accepted since the configure; every
\* ScheduleAudioSamples call carries the position the buffer had before the
\* operation plus what the operation's earlier calls wrote; the position
\* decreases only by being set to 0 in a configure, and otherwise advances
\* by what the calls wrote; Flush (n), applied to the buffer any step
\* leaves, advances it by min (n, pending) and takes as many samples from
\* the buffer.
C34_AudioPosition ==
  /\ []((output.configured /\ audio_buf.init_done) =>
          audio_buf.pos = device.audio_samples)
  /\ [][/\ audio_buf'.init_done =>
             \A n \in FlushSizes(PendingSamples(audio_buf')) :
                /\ AudioBufFlush(audio_buf', n).pos =
                     audio_buf'.pos + Min(n, PendingSamples(audio_buf'))
                /\ AudioBufFlush(audio_buf', n).buffer =
                     audio_buf'.buffer
                       - Min(n, PendingSamples(audio_buf')) * audio_buf'.info.bpf
        /\ \A i \in 1..Len(dev_log') :
             dev_log'[i].call = "ScheduleAudioSamples" =>
               /\ audio_buf.init_done
               /\ dev_log'[i].a = audio_buf.pos + WrittenUpTo(dev_log', i - 1)
        /\ audio_buf'.pos < audio_buf.pos =>
             /\ audio_buf'.pos = 0
             /\ output'.n_frames = 0
             /\ dev_log' = << >>
        /\ (audio_buf'.pos >= audio_buf.pos /\ audio_buf'.init_done) =>
             audio_buf'.pos = audio_buf.pos + WrittenUpTo(dev_log', Len(dev_log'))
       ]_vars

\* The device took the samples offered at a position past 0 in two calls,
\* the second call carrying the position the first one left.
C34_SplitMidStream ==
  \E i \in 1..(Len(dev_log) - 1) :
     /\ dev_log[i].call = "ScheduleAudioSamples"
     /\ dev_log[i + 1].call = "ScheduleAudioSamples"
     /\ dev_log[i].ok /\ dev_log[i + 1].ok
     /\ dev_log[i].a > 0
     /\ dev_log[i].c < dev_log[i].b
     /\ dev_log[i + 1].a = dev_log[i].a + dev_log[i].c
     /\ audio_buf.pos = dev_log[i + 1].a + dev_log[i + 1].c
     /\ PendingSamples(audio_buf) = 0

(***************************************************************************)
(* Device ownership                                                        *)
(***************************************************************************)
\* The elements that hold the input, and the output, of a device object.
InputHolders(obj) ==
  { e \in SrcElements :
      obj.input # NULL_OBJECT /\ elements[e].object = obj.input }
OutputHolders(obj) ==
  { e \in SinkElements :
      obj.output # NULL_OBJECT /\ elements[e].object = obj.output }

\* The objects the device-number and persistent-id properties select.
Selected(list, device_number, persistent_id) ==
  { i \in DOMAIN list :
      IF persistent_id # DEFAULT_PERSISTENT_ID
        THEN list[i].persistent_id = persistent_id
        ELSE list[i].device_number = device_number }

Exclusive ==
  \A i \in DOMAIN device_list :
     /\ Cardinality(InputHolders(device_list[i])) <= 1
     /\ Cardinality(OutputHolders(device_list[i])) <= 1
     /\ device_list[i].input_acquired = (InputHolders(device_list[i]) # {})
     /\ device_list[i].output_acquired = (OutputHolders(device_list[i]) # {})

\* An input or output that nobody holds can be acquired, by either key.
FreeIsAcquirable ==
  \A i \in DOMAIN device_list :
     LET obj == device_list[i]
     IN /\ (obj.input # NULL_OBJECT /\ InputHolders(obj) = {}) =>
             /\ gst_decklink2_acquire_input(device_list, obj.device_number,
                   DEFAULT_PERSISTENT_ID).ret = obj.input
             /\ gst_decklink2_acquire_input(device_list, 0,
                   obj.persistent_id).ret = obj.input
        /\ (obj.output # NULL_OBJECT /\ OutputHolders(obj) = {}) =>
             /\ gst_decklink2_acquire_output(device_list, obj.device_number,
                   DEFAULT_PERSISTENT_ID).ret = obj.output
             /\ gst_decklink2_acquire_output(device_list, 0,
                   obj.persistent_id).ret = obj.output

\* What an acquire of the input leaves when the device is unknown or its
\* input is held, and what a release by the holder leaves.
InputSteps ==
  /\ \A e \in SrcElements, device_number \in DeviceNumbers,
        persistent_id \in PersistentIds :
        AcquireInput(e, device_number, persistent_id) =>
          LET sel == Selected(device_list, device_number, persistent_id)
          IN /\ (sel = {} \/ \E i \in sel : device_list[i].input_acquired) =>
                  /\ elements'[e].object = NULL_OBJECT
                  /\ device_list' = device_list
             /\ elements'[e].object # NULL_OBJECT =>
                  \E i \in sel :
                     /\ elements'[e].object = device_list[i].input
                     /\ InputHolders(device_list[i]) = {}
  /\ \A e \in SrcElements :
        ReleaseInput(e) =>
          \A i \in DOMAIN device_list :
             device_list[i].input = elements[e].object =>
               ~device_list'[i].input_acquired

OutputSteps ==
  /\ \A e \in SinkElements, device_number \in DeviceNumbers,
        persistent_id \in PersistentIds :
        AcquireOutput(e, device_number, persistent_id) =>
          LET sel == Selected(device_list, device_number, persistent_id)
          IN /\ (sel = {} \/ \E i \in sel : device_list[i].output_acquired) =>
                  /\ elements'[e].object = NULL_OBJECT
                  /\ device_list' = device_list
             /\ elements'[e].object # NULL_OBJECT =>
                  \E i \in sel :
                     /\ elements'[e].object = device_list[i].output
                     /\ OutputHolders(device_list[i]) = {}
  /\ \A e \in SinkElements :
        ReleaseOutput(e) =>
          \A i \in DOMAIN device_list :
             device_list[i].output = elements[e].object =>
               ~device_list'[i].output_acquired

\* C35: the input of a device, and independently its output, is held by at
\* most one element in every state the starts and stops of the elements
\* reach; an acquire of an unknown device or of an input or output that is
\* held returns NULL and leaves the registry as it was; a release by the
\* holder clears the flag, and what nobody holds can be acquired again.
C35_ExclusiveOwnership ==
  /\ [](Exclusive /\ FreeIsAcquirable)
  /\ [][InputSteps /\ OutputSteps]_vars

\* The two sides of device 0 are held by different elements; a source
\* failed to start, and a sink that held an output has stopped.
C35_HeldReleasedRefused ==
  /\ elements[<<"src", 1>>] = [object |-> 0, last |-> "started"]
  /\ elements[<<"src", 2>>] = [object |-> NULL_OBJECT, last |-> "start_failed"]
  /\ elements[<<"sink", 1>>] = [object |-> NULL_OBJECT, last |-> "stopped"]
  /\ elements[<<"sink", 2>>] = [object |-> 0, last |-> "started"]
  /\ \A i \in DOMAIN device_list :
        /\ device_list[i].input_acquired = (device_list[i].device_number = 0)
        /\ device_list[i].output_acquired = (device_list[i].device_number = 0)

(***************************************************************************)
(* Threads of the capture side                                             *)
(***************************************************************************)
\* The callback thread is at a place where it reads or writes the time
\* mapping, the audio offsets or the pending audio; the thread inside
\* gst_decklink2_input_start is.
CallbackAccesses == capture.cb \in {"restore", "format", "locked"}
PipelineAccesses == capture.pl = "start"

\* C36: the time mapping and the audio offset tracker are never accessed by
\* two threads at once: while a thread is inside gst_decklink2_input_start,
\* between its stop_unlocked and its return, the callback thread is neither
\* in its unlocked reset after the signal came back, nor in
\* on_format_changed, nor in its locked frame processing.
C36_NoConcurrentAccess == ~(CallbackAccesses /\ PipelineAccesses)

(***************************************************************************)
(* The timeline of the scheduled frames                                    *)
(***************************************************************************)
\* The frames of one handler follow each other without gap or overlap.
Tiled(calls) ==
  \A j \in 1..(Len(calls) - 1) : calls[j + 1].a = calls[j].a + calls[j].b

\* C37: while the output is configured pts is floor (n_frames * fps_d *
\* GST_SECOND / fps_n); a handler that hands frames to the device, accepted
\* or refused, normal or duplicate, starts at the pts it found, gives each
\* frame the slot that ends where the next begins, and leaves n_frames
\* advanced by the number of frames it handed over and pts at the end of the
\* last of them.
C37_FramesTile ==
  /\ [](output.configured =>
          output.pts = FrameTime(output.n_frames, output.selected_mode))
  /\ [](Tiled(VideoCalls))
  /\ [][(dev_log' # dev_log /\ Len(VideoCalls') > 0) =>
          /\ output'.n_frames = output.n_frames + Len(VideoCalls')
          /\ VideoCalls'[1].a = output.pts
          /\ VideoCalls'[1].b > 0
          /\ output'.pts = VideoCalls'[Len(VideoCalls')].a
                             + VideoCalls'[Len(VideoCalls')].b]_vars
  /\ [][output'.n_frames > output.n_frames =>
          (dev_log' # dev_log /\ Len(VideoCalls') > 0)]_vars

\* A recovery handed two duplicates to the device, the first refused and
\* the second accepted in the slot after it, as frames 2 and 3.
C37_SlotKeptAfterRefusal ==
  /\ output.configured
  /\ output.n_frames = 3
  /\ output.duplicate_count = 2
  /\ Len(VideoCalls) = 2
  /\ ~VideoCalls[1].ok /\ VideoCalls[2].ok
  /\ VideoCalls[1].a = FrameTime(1, output.selected_mode)
  /\ VideoCalls[2].a = FrameTime(2, output.selected_mode)

(***************************************************************************)
(* The sink and the output it configures.                                  *)
(***************************************************************************)
\* C38: every gst_decklink2_output_schedule_stream call that
\* gst_decklink2_sink_render makes finds output->configured TRUE, so that the
\* assertion at the top of schedule_stream never fails, whatever set_caps,
\* render, the restart action and succeeding or failing configure calls
\* came before.
C38_SubmitFindsConfigured == ~sink.asserted

\* min_buffered_frames <= n_preroll_frames <= max_buffered_frames
Ordered(t) == t[2] <= t[1] /\ t[1] <= t[3]

DefaultThresholds ==
  <<DEFAULT_N_PREROLL_FRAMES, DEFAULT_MIN_BUFFERED_FRAMES,
    DEFAULT_MAX_BUFFERED_FRAMES>>

\* A start that succeeded leaves the defaults when the property values were
\* out of order and the property values otherwise.
StartValidates ==
  (sink.output = NULL_OBJECT /\ sink'.output # NULL_OBJECT)
     => /\ Ordered(Thresholds(sink'))
        /\ Thresholds(sink') = IF Ordered(Thresholds(sink))
                               THEN Thresholds(sink) ELSE DefaultThresholds
        /\ sink'.at_start = Thresholds(sink')

\* Every configure call of a started sink is given the thresholds start left.
ConfigureGetsStartValues ==
  (sink.output # NULL_OBJECT /\ sink.passed # NoThresholds)
     => sink.passed = sink.at_start

\* C39: a start that succeeds leaves min_buffered_frames <= n_preroll_frames
\* <= max_buffered_frames, replacing all three by 7 / 3 / 14 when the
\* property values were out of order and leaving them unchanged otherwise,
\* and these are the values passed to every later configure.
C39_ThresholdsConsistent ==
  [][StartValidates]_vars /\ []ConfigureGetsStartValues

(***************************************************************************)
(* The audio buffers the capture callback attaches to the units it queues. *)
(***************************************************************************)
\* The step is a callback that queued a unit with an audio buffer; the unit
\* is the tail of the queue it leaves.
EmitsAudio ==
  /\ hw'.calls = hw.calls + 1
  /\ queue' # queue
  /\ Len(queue') > 0
  /\ arrival'.outcome = "queued"
  /\ Len(queue'[Len(queue')].audio) > 0

\* The callback of the step reconciled a packet declared at another offset
\* than the expected one.
OffsetMismatch ==
  /\ arrival'.reconciled
  /\ arrival'.next # INVALID_AUDIO_OFFSET
  /\ arrival'.next # arrival'.d

\* An emitted buffer is stamped with the running offset, which is the seed
\* taken from this callback's packet when none was set, and the offset then
\* moves by the buffer's samples.
EmittedAtOffset ==
  EmitsAudio =>
    LET unit == queue'[Len(queue')]
    IN /\ unit.audio_offset # INVALID_AUDIO_OFFSET
       /\ input.audio_offset # INVALID_AUDIO_OFFSET
            => unit.audio_offset = input.audio_offset
       /\ input.audio_offset = INVALID_AUDIO_OFFSET
            => /\ arrival'.reconciled
               /\ unit.audio_offset = InitialAudioOffset(input', arrival'.d)
       /\ unit.audio_pts =
            gst_util_uint64_scale(unit.audio_offset, GST_SECOND, AudioRate)
       /\ input'.audio_offset = unit.audio_offset + Len(unit.audio)

\* Between two emissions a seeded offset stays, or is unset by a reset.
OffsetKeptBetween ==
  (~EmitsAudio /\ input.audio_offset # INVALID_AUDIO_OFFSET)
     => input'.audio_offset \in {input.audio_offset, INVALID_AUDIO_OFFSET}

\* The DISCONT flag is raised by a mismatch only, is put on the next
\* emitted buffer and is taken down by it.
DiscontOnNextBuffer ==
  /\ (input'.audio_discont /\ ~input.audio_discont) => OffsetMismatch
  /\ EmitsAudio =>
       /\ queue'[Len(queue')].discont
            <=> (input.audio_discont \/ OffsetMismatch)
       /\ ~input'.audio_discont
  /\ (~EmitsAudio /\ input.audio_discont /\ input.started /\ input'.started)
        => input'.audio_discont

\* C40: between two resets of the audio offset every emitted audio buffer
\* has PTS = audio_offset * GST_SECOND / rate, where audio_offset is the seed
\* plus the samples of all audio buffers emitted before it, so that each
\* buffer starts where the one before it ended whatever the packets'
\* declared offsets were, and an offset mismatch is reported by DISCONT on
\* the next emitted audio buffer only.
C40_AudioContiguous ==
  [][EmittedAtOffset /\ OffsetKeptBetween /\ DiscontOnNextBuffer]_vars

====
